---- MODULE Spec2Model ----
(***************************************************************************)
(* A model of the presentation-review application's services:              *)
(*   - KnowledgeService (src/src/services/knowledgeService.js): the        *)
(*     in-memory knowledge base, keyword extraction and document search;   *)
(*   - CacheService (src/src/services/cacheService.js): the in-memory map  *)
(*     with TTL and capacity eviction, mirrored into localStorage.         *)
(* JavaScript strings are TLA+ strings, read with Len, SubSeq and \o.      *)
(***************************************************************************)
EXTENDS Integers, Sequences, FiniteSets, TLC

VARIABLES
    knowledgeBase,  \* KnowledgeService.knowledgeBase: documents, designFramework, lastUpdated
    nextRef,        \* number of document objects allocated so far (object identity)
    kbCall,         \* the last KnowledgeService call: its name, arguments and outcome
    cache,          \* CacheService.cache: the Map's entries, in insertion order
    storage,        \* localStorage: the entries stored under the cache_ prefix
    now,            \* Date.now()
    cacheCall,      \* the last CacheService call: its name, arguments and outcome
    lastSet,        \* history: per key, the latest set not followed by delete or clear
    kwInput,        \* the argument a keyword-extraction run is given
    ui,             \* the application component's state: API key, file, analysis, error, tab
    upload,         \* the handleFileUpload in progress: its position, requests and responses
    uploads,        \* number of handleFileUpload calls so far
    parsed,         \* history: per cache key, the entry of the latest successful parse
    failed,         \* history: the cache keys of the files whose parsing has failed
    slideView,      \* the SlideAnalysis component: its props and state
    slideCall,      \* the analyzeCurrentSlide in progress or finished last
    scored,         \* the slide given to scoreSlide last, with its word term and score
    chat            \* the DesignChat component: its props, state and requests in flight

kbVars == <<knowledgeBase, nextRef, kbCall, kwInput>>
cacheVars == <<cache, storage, now, cacheCall, lastSet>>
uploadVars == <<ui, upload, uploads, parsed, failed>>
slideVars == <<slideView, slideCall>>
scoreVars == <<scored>>
chatVars == <<chat>>
vars == <<knowledgeBase, nextRef, kbCall, kwInput, cache, storage, now, cacheCall, lastSet,
          ui, upload, uploads, parsed, failed, slideView, slideCall, scored, chat>>

(***************************************************************************)
(* JavaScript values and outcomes                                          *)
(***************************************************************************)
Null == [null |-> TRUE]
Undefined == [t |-> "undefined"]
Str(s) == [t |-> "string", s |-> s]
Num(n) == [t |-> "number", n |-> n]
Arr(items) == [t |-> "array", items |-> items]

Return(v) == [threw |-> FALSE, value |-> v]
Throw(e) == [threw |-> TRUE, error |-> e]

(***************************************************************************)
(* Strings                                                                 *)
(***************************************************************************)
UpperChars == "ABCDEFGHIJKLMNOPQRSTUVWXYZ"
LowerChars == "abcdefghijklmnopqrstuvwxyz"
DigitChars == "0123456789"

CharAt(s, i) == SubSeq(s, i, i)

CharsOf(s) == {CharAt(s, i) : i \in 1..Len(s)}

IndexIn(c, alphabet) ==
    IF \E i \in 1..Len(alphabet) : CharAt(alphabet, i) = c
    THEN CHOOSE i \in 1..Len(alphabet) : CharAt(alphabet, i) = c
    ELSE 0

\* String.prototype.toLowerCase on one character
LowerOf == [c \in CharsOf(UpperChars) |-> CharAt(LowerChars, IndexIn(c, UpperChars))]

LowerChar(c) == IF c \in DOMAIN LowerOf THEN LowerOf[c] ELSE c

\* the string is mapped half by half, character by character
RECURSIVE toLowerCase(_)
toLowerCase(s) ==
    IF Len(s) = 0 THEN ""
    ELSE IF Len(s) = 1 THEN LowerChar(s)
    ELSE toLowerCase(SubSeq(s, 1, Len(s) \div 2))
            \o toLowerCase(SubSeq(s, Len(s) \div 2 + 1, Len(s)))

\* String.prototype.includes
includes(s, p) ==
    /\ Len(p) <= Len(s)
    /\ \E i \in 0..(Len(s) - Len(p)) : SubSeq(s, i + 1, i + Len(p)) = p

\* the regular expression classes \w and \s
WordChars == CharsOf(LowerChars) \cup CharsOf(UpperChars) \cup CharsOf(DigitChars) \cup {"_"}

IsWordChar(c) == c \in WordChars

IsSpaceChar(c) == c \in {" ", "\n", "\t"}

\* .replace(/[^\w\s]/g, ' ') on one character
ReplaceChar(c) == IF IsWordChar(c) \/ IsSpaceChar(c) THEN c ELSE " "

RECURSIVE replaceNonWord(_)
replaceNonWord(s) ==
    IF Len(s) = 0 THEN ""
    ELSE IF Len(s) = 1 THEN ReplaceChar(s)
    ELSE replaceNonWord(SubSeq(s, 1, Len(s) \div 2))
            \o replaceNonWord(SubSeq(s, Len(s) \div 2 + 1, Len(s)))

\* .split(/\s+/): every maximal run of non-whitespace is a piece, in order; a
\* leading or a trailing run of whitespace leaves an empty piece, and the
\* empty string splits to <<"">>
IsSpaceAt(s, i) == IsSpaceChar(CharAt(s, i))

PieceStarts(s) ==
    {i \in 1..Len(s) : ~IsSpaceAt(s, i) /\ (i = 1 \/ IsSpaceAt(s, i - 1))}

PieceEnd(s, i) ==
    CHOOSE j \in i..Len(s) :
        /\ \A k \in i..j : ~IsSpaceAt(s, k)
        /\ j = Len(s) \/ IsSpaceAt(s, j + 1)

splitWhitespace(s) ==
    LET starts == PieceStarts(s)
        nth(k) == CHOOSE i \in starts : Cardinality({j \in starts : j < i}) = k - 1
        pieces == [k \in 1..Cardinality(starts) |-> SubSeq(s, nth(k), PieceEnd(s, nth(k)))]
        lead == IF Len(s) = 0 \/ IsSpaceAt(s, 1) THEN <<"">> ELSE <<>>
        trail == IF Len(s) > 0 /\ IsSpaceAt(s, Len(s)) THEN <<"">> ELSE <<>>
    IN  lead \o pieces \o trail

Min(a, b) == IF a < b THEN a ELSE b
Max(a, b) == IF a > b THEN a ELSE b

\* Array.prototype.slice(0, end): a negative end counts from the end
sliceTo(s, end) ==
    SubSeq(s, 1, IF end < 0 THEN Max(Len(s) + end, 0) ELSE Min(end, Len(s)))

\* Array.prototype.includes
SeqIncludes(s, x) == \E i \in 1..Len(s) : s[i] = x

(***************************************************************************)
(* KnowledgeService.extractKeywords                                        *)
(***************************************************************************)
commonWords ==
    <<"the", "and", "or", "but", "in", "on", "at", "to", "for", "of", "with",
      "by", "is", "are", "was", "were", "be", "been", "have", "has", "had",
      "do", "does", "did", "will", "would", "could", "should">>

MinWordLength == 3
MaxKeywords == 20

\* .filter(word => word.length > 3 && !commonWords.includes(word))
RECURSIVE filterWords(_)
filterWords(ws) ==
    IF ws = <<>> THEN <<>>
    ELSE IF Len(Head(ws)) > MinWordLength /\ ~SeqIncludes(commonWords, Head(ws))
         THEN <<Head(ws)>> \o filterWords(Tail(ws))
         ELSE filterWords(Tail(ws))

\* content.toLowerCase().replace(...).split(...).filter(...)
tokenize(text) == filterWords(splitWhitespace(replaceNonWord(toLowerCase(text))))

\* wordCount = {} is an ordinary object: it inherits Object.prototype. Of the
\* inherited names only these two are lower-case words the tokenizer admits.
\*  - wordCount["constructor"] reads the inherited function Object, which is
\*    truthy, so (wordCount[word] || 0) + 1 is a string, never a number;
\*  - wordCount["__proto__"] reads Object.prototype (truthy), and assigning the
\*    resulting string to __proto__ is ignored: no own property is created.
IsInheritedFunction(w) == w = "constructor"
IsProtoAccessor(w) == w = "__proto__"

\* words.forEach(word => wordCount[word] = (wordCount[word] || 0) + 1):
\* an own property is created at a word's first occurrence, so the properties
\* stand in the order of first occurrence, each with its number of
\* occurrences; count is meaningful when isNumber
FirstOccurrences(ws) ==
    {i \in 1..Len(ws) : ~IsProtoAccessor(ws[i]) /\ \A j \in 1..(i - 1) : ws[j] # ws[i]}

countWords(ws) ==
    LET firsts == FirstOccurrences(ws)
        nth(k) == CHOOSE i \in firsts : Cardinality({j \in firsts : j < i}) = k - 1
    IN  [k \in 1..Cardinality(firsts) |->
            [word |-> ws[nth(k)],
             count |-> Cardinality({j \in 1..Len(ws) : ws[j] = ws[nth(k)]}),
             isNumber |-> ~IsInheritedFunction(ws[nth(k)])]]

\* A property name that is a canonical array index ("2024", not "0123", and
\* below 2^32 - 1): words have more than 3 characters, so "0" cannot occur.
MaxArrayIndex == "4294967294"

RECURSIVE AllDigits(_, _)
AllDigits(w, i) ==
    IF i > Len(w) THEN TRUE
    ELSE CharAt(w, i) \in CharsOf(DigitChars) /\ AllDigits(w, i + 1)

\* decimal strings of the same length compare as their numbers do
RECURSIVE DigitsLess(_, _, _)
DigitsLess(a, b, i) ==
    IF i > Len(a) THEN FALSE
    ELSE LET x == IndexIn(CharAt(a, i), DigitChars)
             y == IndexIn(CharAt(b, i), DigitChars)
         IN  IF x # y THEN x < y ELSE DigitsLess(a, b, i + 1)

NumericLess(a, b) ==
    Len(a) < Len(b) \/ (Len(a) = Len(b) /\ DigitsLess(a, b, 1))

IsArrayIndex(w) ==
    /\ Len(w) > 0
    /\ AllDigits(w, 1)
    /\ CharAt(w, 1) # "0" \/ Len(w) = 1
    /\ NumericLess(w, MaxArrayIndex) \/ w = MaxArrayIndex

\* Object.entries(wordCount): the array-index keys in ascending numeric
\* order, then the other keys in creation order
RECURSIVE insertIndexKey(_, _)
insertIndexKey(sorted, e) ==
    IF sorted = <<>> THEN <<e>>
    ELSE IF NumericLess(e.word, Head(sorted).word)
         THEN <<e>> \o sorted
         ELSE <<Head(sorted)>> \o insertIndexKey(Tail(sorted), e)

RECURSIVE indexKeys(_)
indexKeys(entries) ==
    IF entries = <<>> THEN <<>>
    ELSE LET rest == indexKeys(Tail(entries))
         IN  IF IsArrayIndex(Head(entries).word)
             THEN insertIndexKey(rest, Head(entries))
             ELSE rest

RECURSIVE stringKeys(_)
stringKeys(entries) ==
    IF entries = <<>> THEN <<>>
    ELSE IF IsArrayIndex(Head(entries).word)
         THEN stringKeys(Tail(entries))
         ELSE <<Head(entries)>> \o stringKeys(Tail(entries))

objectEntries(entries) == indexKeys(entries) \o stringKeys(entries)

\* the comparator ([,a], [,b]) => b - a; a non-numeric count makes it NaN,
\* which Array.prototype.sort reads as +0
compareCounts(a, b) ==
    IF a.isNumber /\ b.isNumber THEN b.count - a.count ELSE 0

\* Array.prototype.sort is stable: an element moves in front of exactly the
\* elements it compares smaller than (insertion from the right). Two entries
\* are ordered by the comparator alone; where a NaN makes the comparator
\* inconsistent over three or more entries, the order is the engine's choice
\* and this insertion is one of the orders an engine may produce.
RECURSIVE insertByCount(_, _)
insertByCount(sorted, e) ==
    IF sorted = <<>> THEN <<e>>
    ELSE LET last == sorted[Len(sorted)]
         IN  IF compareCounts(last, e) > 0
             THEN Append(insertByCount(SubSeq(sorted, 1, Len(sorted) - 1), e), last)
             ELSE Append(sorted, e)

RECURSIVE sortByCount(_)
sortByCount(es) ==
    IF es = <<>> THEN <<>>
    ELSE insertByCount(sortByCount(SubSeq(es, 1, Len(es) - 1)), es[Len(es)])

wordsOf(entries) == [i \in 1..Len(entries) |-> entries[i].word]

\* the keyword list of a string
keywordsOf(text) ==
    wordsOf(sliceTo(sortByCount(objectEntries(countWords(tokenize(text)))),
                    MaxKeywords))

\* extractKeywords(content): content.toLowerCase() throws a TypeError when
\* content is undefined
extractKeywords(content) ==
    IF content = Undefined
    THEN Throw("TypeError")
    ELSE Return(keywordsOf(content.s))

(***************************************************************************)
(* KnowledgeService: the knowledge base                                    *)
(***************************************************************************)
\* loadKnowledgeBase()
loadKnowledgeBase == [documents |-> <<>>, designFramework |-> Null, lastUpdated |-> Null]

\* saveKnowledgeBase(): lastUpdated = new Date().toISOString()
saveKnowledgeBase(kb, date) == [kb EXCEPT !.lastUpdated = date]

\* value || fallback for an optional property of the uploaded document
OrDefault(v, fallback) == IF v = Undefined THEN fallback ELSE v.s

\* the object literal knowledgeDoc of addDocument; ref is the object's identity
knowledgeDoc(document, ref, id, date, keywords) ==
    [ref |-> ref,
     id |-> id,
     name |-> document.name,
     content |-> document.content.s,
     type |-> OrDefault(document.type, "general"),
     keywords |-> keywords,
     uploadDate |-> date,
     size |-> IF document.size = Undefined THEN 0 ELSE document.size.n]

\* a test that takes every name with the word compass for the framework
isAnyCompass(name) == includes(toLowerCase(name), "compass")

\* document.name.toLowerCase().includes('design compass') || ...('presentation compass')
isDesignCompass(name) ==
    \/ includes(toLowerCase(name), "design compass")
    \/ includes(toLowerCase(name), "presentation compass")

\* addDocument without its else: a framework document is listed as well
storeDocumentListed(kb, doc) ==
    IF isDesignCompass(doc.name)
    THEN [kb EXCEPT !.designFramework = doc, !.documents = Append(@, doc)]
    ELSE [kb EXCEPT !.documents = Append(@, doc)]

\* the if/else of addDocument: the framework slot is assigned, or the list grows
storeDocument(kb, doc) ==
    IF isDesignCompass(doc.name)
    THEN [kb EXCEPT !.designFramework = doc]
    ELSE [kb EXCEPT !.documents = Append(@, doc)]

\* documents.filter(doc => doc.id !== id)
RECURSIVE filterOutId(_, _)
filterOutId(docs, id) ==
    IF docs = <<>> THEN <<>>
    ELSE IF Head(docs).id # id
         THEN <<Head(docs)>> \o filterOutId(Tail(docs), id)
         ELSE filterOutId(Tail(docs), id)

\* removeDocument(id), before the save
dropDocument(kb, id) ==
    [kb EXCEPT !.documents = filterOutId(@, id),
               !.designFramework =
                    IF @ # Null /\ @.id = id THEN Null ELSE @]

\* getAllDocuments(): the list, then a copy of the framework marked isFramework
withFlag(doc) ==
    [ref |-> doc.ref, id |-> doc.id, name |-> doc.name, content |-> doc.content,
     type |-> doc.type, keywords |-> doc.keywords, uploadDate |-> doc.uploadDate,
     size |-> doc.size, isFramework |-> TRUE]

getAllDocuments(kb) ==
    IF kb.designFramework # Null
    THEN Append(kb.documents, withFlag(kb.designFramework))
    ELSE kb.documents

\* getStats()
getStats(kb) ==
    [totalDocuments |-> Len(kb.documents) + (IF kb.designFramework # Null THEN 1 ELSE 0),
     hasFramework |-> kb.designFramework # Null,
     lastUpdated |-> kb.lastUpdated,
     documents |-> Len(kb.documents),
     frameworkName |-> IF kb.designFramework = Null THEN Null
                       ELSE IF kb.designFramework.name = "" THEN Null
                       ELSE Str(kb.designFramework.name)]

(***************************************************************************)
(* KnowledgeService.searchRelevantDocuments                                *)
(***************************************************************************)
KeywordListWeight == 2
ContentWeight == 1
NameWeight == 3
FrameworkBoost == 5
DefaultLimit == 5

\* a loop body without the test of the content
keywordScoreNoContent(doc, keyword) ==
    (IF SeqIncludes(doc.keywords, keyword) THEN KeywordListWeight ELSE 0)
    + (IF includes(toLowerCase(doc.name), keyword) THEN NameWeight ELSE 0)

\* the body of queryKeywords.forEach for one keyword
keywordScore(doc, keyword) ==
    (IF SeqIncludes(doc.keywords, keyword) THEN KeywordListWeight ELSE 0)
    + (IF includes(toLowerCase(doc.content), keyword) THEN ContentWeight ELSE 0)
    + (IF includes(toLowerCase(doc.name), keyword) THEN NameWeight ELSE 0)

RECURSIVE keywordsScore(_, _)
keywordsScore(doc, keywords) ==
    IF keywords = <<>> THEN 0
    ELSE keywordScore(doc, Head(keywords)) + keywordsScore(doc, Tail(keywords))

\* doc === this.knowledgeBase.designFramework compares object identities
isFrameworkObject(kb, doc) ==
    kb.designFramework # Null /\ doc.ref = kb.designFramework.ref

\* a scorer in which the framework bonus replaces the keyword score
scoreDocumentFlat(kb, doc, queryKeywords) ==
    IF isFrameworkObject(kb, doc) THEN FrameworkBoost
    ELSE keywordsScore(doc, queryKeywords)

\* the callback of allDocs.map
scoreDocument(kb, doc, queryKeywords) ==
    keywordsScore(doc, queryKeywords)
    + (IF isFrameworkObject(kb, doc) THEN FrameworkBoost ELSE 0)

withScore(doc, score) ==
    [ref |-> doc.ref, id |-> doc.id, name |-> doc.name, content |-> doc.content,
     type |-> doc.type, keywords |-> doc.keywords, uploadDate |-> doc.uploadDate,
     size |-> doc.size, relevanceScore |-> score]

\* allDocs: [...documents], then the framework object itself
allDocsOf(kb) ==
    IF kb.designFramework # Null
    THEN Append(kb.documents, kb.designFramework)
    ELSE kb.documents

scoredDocs(kb, queryKeywords) ==
    LET allDocs == allDocsOf(kb)
    IN  [i \in 1..Len(allDocs) |->
            withScore(allDocs[i], scoreDocument(kb, allDocs[i], queryKeywords))]

\* a scorer that writes relevanceScore into the stored objects
storedAfterScoringInPlace(kb, queryKeywords) ==
    [kb EXCEPT !.documents =
                  [i \in 1..Len(@) |-> withScore(@[i], scoreDocument(kb, @[i], queryKeywords))],
               !.designFramework =
                  IF @ = Null THEN Null
                  ELSE withScore(@, scoreDocument(kb, @, queryKeywords))]

\* the stored objects after allDocs.map: [...documents] is a new array and
\* { ...doc, relevanceScore } a new object, so the map writes to neither
storedAfterScoring(kb, queryKeywords) == kb

\* the knowledge base after searchRelevantDocuments(query)
baseAfterSearch(kb, query) ==
    LET queryKeywords == extractKeywords(query)
    IN  IF queryKeywords.threw THEN kb
        ELSE storedAfterScoring(kb, queryKeywords.value)

\* .filter(doc => doc.relevanceScore > 0)
RECURSIVE filterPositive(_)
filterPositive(docs) ==
    IF docs = <<>> THEN <<>>
    ELSE IF Head(docs).relevanceScore > 0
         THEN <<Head(docs)>> \o filterPositive(Tail(docs))
         ELSE filterPositive(Tail(docs))

\* a comparator that sorts by ascending score
compareScoresAscending(a, b) == a.relevanceScore - b.relevanceScore

\* .sort((a, b) => b.relevanceScore - a.relevanceScore), a stable sort
compareScores(a, b) == b.relevanceScore - a.relevanceScore

RECURSIVE insertByScore(_, _)
insertByScore(sorted, d) ==
    IF sorted = <<>> THEN <<d>>
    ELSE LET last == sorted[Len(sorted)]
         IN  IF compareScores(last, d) > 0
             THEN Append(insertByScore(SubSeq(sorted, 1, Len(sorted) - 1), d), last)
             ELSE Append(sorted, d)

RECURSIVE sortByScore(_)
sortByScore(docs) ==
    IF docs = <<>> THEN <<>>
    ELSE insertByScore(sortByScore(SubSeq(docs, 1, Len(docs) - 1)), docs[Len(docs)])

\* the limit argument: limit = 5 when the caller passes undefined
limitOf(limit) == IF limit = Undefined THEN DefaultLimit ELSE limit.n

searchRelevantDocuments(kb, query, limit) ==
    LET queryKeywords == extractKeywords(query)
    IN  IF queryKeywords.threw THEN queryKeywords
        ELSE Return(sliceTo(sortByScore(filterPositive(scoredDocs(kb, queryKeywords.value))),
                            limitOf(limit)))

(***************************************************************************)
(* Inputs of the knowledge base                                            *)
(***************************************************************************)
MaxAdds == 3        \* addDocument calls in one run

\* the documents handleAddCompanyDocuments may pass to addDocument
Documents ==
    { [name |-> "Design Compass v2.pdf",
       content |-> Str("The Design Compass: brand and charts"),
       type |-> Str("framework"), size |-> Num(2048)],
      [name |-> "my PRESENTATION COMPASS",
       content |-> Str(""),
       type |-> Undefined, size |-> Undefined],
      [name |-> "brand-guide.pdf",
       content |-> Str("Brand colors; CHARTS use brand colors"),
       type |-> Str("brand"), size |-> Num(100)],
      [name |-> "compass design notes",
       content |-> Str("notes about charts"),
       type |-> Undefined, size |-> Num(7)],
      [name |-> "charts.txt",
       content |-> Str("2024 figures, no text"),
       type |-> Str("general"), size |-> Undefined],
      [name |-> "scan.pdf",
       content |-> Undefined,
       type |-> Str("general"), size |-> Num(1)] }

\* id: Date.now() + Math.random(), taken to be a number not given out before;
\* removeDocument is tried with every id given out and with one that was not
NewIds == {nextRef + 1}
KnownIds == 1..(nextRef + 1)

\* new Date().toISOString()
Dates == {"2026-01-01T00:00:00.000Z"}

Queries ==
    { Str("brand charts"), Str("How should the Compass treat charts?"),
      Str(""), Undefined }

\* limit is a number of entries, or is left out
Limits == {Undefined, Num(0), Num(2)}

(***************************************************************************)
(* KnowledgeService: the calls                                             *)
(***************************************************************************)
KBInit ==
    /\ knowledgeBase = loadKnowledgeBase
    /\ nextRef = 0
    /\ kbCall = [op |-> "constructor"]
    /\ kwInput = Undefined

\* addDocument(document): the keyword extraction may throw before anything is
\* stored; otherwise the document is stored, the base saved, the object returned
AddDocument(document, id, date) ==
    /\ nextRef < MaxAdds
    /\ \E keywords \in {extractKeywords(document.content)} :
        IF keywords.threw
        THEN /\ kbCall' = [op |-> "addDocument", document |-> document,
                           outcome |-> keywords]
             /\ UNCHANGED <<knowledgeBase, nextRef>>
        ELSE \E doc \in {knowledgeDoc(document, nextRef + 1, id, date, keywords.value)} :
             /\ knowledgeBase' = saveKnowledgeBase(storeDocument(knowledgeBase, doc), date)
             /\ nextRef' = nextRef + 1
             /\ kbCall' = [op |-> "addDocument", document |-> document,
                           outcome |-> Return(doc)]
    /\ UNCHANGED kwInput

\* removeDocument(id)
RemoveDocument(id, date) ==
    /\ knowledgeBase' = saveKnowledgeBase(dropDocument(knowledgeBase, id), date)
    /\ kbCall' = [op |-> "removeDocument", id |-> id, outcome |-> Return(Undefined)]
    /\ UNCHANGED <<nextRef, kwInput>>

\* searchRelevantDocuments(query, limit)
SearchRelevantDocuments(query, limit) ==
    /\ kbCall' = [op |-> "searchRelevantDocuments", query |-> query, limit |-> limit,
                  outcome |-> searchRelevantDocuments(knowledgeBase, query, limit)]
    /\ knowledgeBase' = baseAfterSearch(knowledgeBase, query)
    /\ UNCHANGED <<nextRef, kwInput>>

\* getAllDocuments()
GetAllDocuments ==
    /\ kbCall' = [op |-> "getAllDocuments", outcome |-> Return(getAllDocuments(knowledgeBase))]
    /\ UNCHANGED <<knowledgeBase, nextRef, kwInput>>

\* getStats()
GetStats ==
    /\ kbCall' = [op |-> "getStats", outcome |-> Return(getStats(knowledgeBase))]
    /\ UNCHANGED <<knowledgeBase, nextRef, kwInput>>

KBNext ==
    \/ \E document \in Documents, id \in NewIds, date \in Dates :
            AddDocument(document, id, date)
    \/ \E id \in KnownIds, date \in Dates : RemoveDocument(id, date)
    \/ \E query \in Queries, limit \in Limits : SearchRelevantDocuments(query, limit)
    \/ GetAllDocuments
    \/ GetStats

(***************************************************************************)
(* Keyword extraction on its own: texts of up to MaxWords words            *)
(***************************************************************************)
MaxWords == 3

Vocabulary ==
    { "Design", "chart", "2024", "1999", "constructor", "__proto__", "should",
      "cat", "re-design" }

RECURSIVE Phrases(_)
Phrases(n) ==
    IF n = 0 THEN {""}
    ELSE Phrases(n - 1)
         \cup {IF p = "" THEN w ELSE p \o " " \o w : p \in Phrases(n - 1), w \in Vocabulary}

LongText ==
    "Alpha bravo charlie delta echo1 foxtrot golf hotel india juliet kilo lima mike "
    \o "november oscar papa quebec romeo sierra tango uniform victor zulu, Zulu.\n"
    \o "\tzulu"

Texts ==
    {Str(p) : p \in Phrases(MaxWords) \cup {LongText, " ", " chart\n\tchart  cat "}}
    \cup {Undefined}

KwInit ==
    /\ knowledgeBase = loadKnowledgeBase
    /\ nextRef = 0
    /\ kbCall = [op |-> "constructor"]
    /\ kwInput \in Texts

\* extractKeywords(content), called once on the input
ExtractKeywords ==
    /\ kbCall.op = "constructor"
    /\ kbCall' = [op |-> "extractKeywords", content |-> kwInput,
                  outcome |-> extractKeywords(kwInput)]
    /\ UNCHANGED <<knowledgeBase, nextRef, kwInput>>

KwNext == ExtractKeywords

(***************************************************************************)
(* CacheService                                                            *)
(* cache is the Map as the sequence of its [key, entry] pairs in insertion *)
(* order; storage maps a key to the entry parsed from the localStorage     *)
(* item "cache_" + key, or to Null when there is no such item.             *)
(***************************************************************************)
maxSize == 50
defaultTTL == 3600000

NaN == [t |-> "NaN"]

\* JSON.parse(JSON.stringify(value)): NaN is written as null
jsonRoundTrip(value) == IF value = NaN THEN Null ELSE value

\* the entry object of set
entryOf(value, timestamp, ttl) == [value |-> value, timestamp |-> timestamp, ttl |-> ttl]

\* JSON.parse(JSON.stringify(entry))
storedEntry(entry) == entryOf(jsonRoundTrip(entry.value), entry.timestamp, entry.ttl)

\* Date.now() - entry.timestamp < entry.ttl
isValid(entry, t) == t - entry.timestamp < entry.ttl

\* Map.prototype.has, get, set and delete
mapHas(m, key) == \E i \in 1..Len(m) : m[i].key = key

mapGet(m, key) == m[CHOOSE i \in 1..Len(m) : m[i].key = key].entry

mapSet(m, key, entry) ==
    IF mapHas(m, key)
    THEN [i \in 1..Len(m) |-> IF m[i].key = key THEN [key |-> key, entry |-> entry] ELSE m[i]]
    ELSE Append(m, [key |-> key, entry |-> entry])

mapDelete(m, key) == SelectSeq(m, LAMBDA p : p.key # key)

\* the first loop of cleanup: the expired keys are deleted
dropExpired(m, t) == SelectSeq(m, LAMBDA p : isValid(p.entry, t))

\* a sort by descending timestamp: the newest pair comes first
sortsBeforeNewest(m, i, j) ==
    \/ m[i].entry.timestamp > m[j].entry.timestamp
    \/ m[i].entry.timestamp = m[j].entry.timestamp /\ i < j

\* entries.sort((a, b) => a[1].timestamp - b[1].timestamp) is stable: the pair at
\* i precedes the pair at j when it is older, or as old and inserted earlier
sortsBefore(m, i, j) ==
    \/ m[i].entry.timestamp < m[j].entry.timestamp
    \/ m[i].entry.timestamp = m[j].entry.timestamp /\ i < j

\* entries.slice(0, this.cache.size - this.maxSize + 1), as positions of m
toRemove(m) ==
    {j \in 1..Len(m) :
        Cardinality({i \in 1..Len(m) : sortsBefore(m, i, j)}) < Len(m) - maxSize + 1}

\* the second part of cleanup
dropOldest(m) ==
    IF Len(m) >= maxSize
    THEN LET gone == {m[j].key : j \in toRemove(m)}
         IN  SelectSeq(m, LAMBDA p : p.key \notin gone)
    ELSE m

\* cleanup()
cleanup(m, t) == dropOldest(dropExpired(m, t))

\* set's first statement: if (this.cache.size >= this.maxSize) this.cleanup()
cleanupIfFull(m, t) == IF Len(m) >= maxSize THEN cleanup(m, t) ELSE m

\* set(key, value, ttl), the in-memory part
setInMemory(m, key, entry, t) == mapSet(cleanupIfFull(m, t), key, entry)

\* localStorage.setItem inside try/catch: a throwing write changes nothing
setInStorage(st, key, entry, writes) ==
    IF writes THEN [st EXCEPT ![key] = storedEntry(entry)] ELSE st

\* the ttl argument: ttl = this.defaultTTL when the caller passes undefined
ttlOf(ttl) == IF ttl = Undefined THEN defaultTTL ELSE ttl.n

\* get(key): [m, st, result]. A valid entry in memory is returned; an expired one
\* is deleted; then localStorage is read inside try/catch: a valid stored entry
\* is put back into the Map and returned, an expired one is removed
getFrom(m, st, key, t, reads) ==
    LET hit == mapHas(m, key) /\ isValid(mapGet(m, key), t)
        m1 == IF mapHas(m, key) THEN mapDelete(m, key) ELSE m
    IN  IF hit THEN [m |-> m, st |-> st, result |-> mapGet(m, key).value]
        ELSE IF reads /\ st[key] # Null
             THEN IF isValid(st[key], t)
                  THEN [m |-> mapSet(m1, key, st[key]), st |-> st,
                        result |-> st[key].value]
                  ELSE [m |-> m1, st |-> [st EXCEPT ![key] = Null], result |-> Null]
             ELSE [m |-> m1, st |-> st, result |-> Null]

(***************************************************************************)
(* Inputs of the cache                                                     *)
(***************************************************************************)
MaxTime == 1        \* the clock runs from 0 to MaxTime

\* Keys are numbered. Key 1 is called with every input; the maxSize keys after
\* it are only ever written in one row of consecutive set calls with the
\* default ttl, as a caller caching that many results would do.
HotKeys == {1}
BulkKeys == 2..(maxSize + 1)
Keys == HotKeys \cup BulkKeys

Values == {Str("deck A"), NaN}
BulkValue == Str("deck B")
TTLs == {Undefined, Num(1)}

CacheInit ==
    /\ cache = <<>>
    /\ storage = [k \in Keys |-> Null]
    /\ now = 0
    /\ cacheCall = [op |-> "constructor"]
    /\ lastSet = [k \in Keys |-> Null]

(***************************************************************************)
(* CacheService: the calls                                                 *)
(***************************************************************************)
keysOf(m) == {m[i].key : i \in 1..Len(m)}

\* set(key, value, ttl); writes tells whether localStorage.setItem succeeds.
\* The call record keeps what the call found and which keys it evicted.
Set(key, value, ttl, writes) ==
    LET entry == entryOf(value, now, ttlOf(ttl))
    IN  /\ cache' = setInMemory(cache, key, entry, now)
        /\ storage' = setInStorage(storage, key, entry, writes)
        /\ lastSet' = [lastSet EXCEPT ![key] = entry]
        /\ cacheCall' = [op |-> "set", key |-> key,
                         sizeBefore |-> Len(cache),
                         expiredBefore |-> keysOf(cache) \ keysOf(dropExpired(cache, now)),
                         evicted |-> keysOf(cache) \ keysOf(cleanupIfFull(cache, now))]
        /\ UNCHANGED now

\* get(key); reads tells whether localStorage.getItem succeeds
Get(key, reads) ==
    \E r \in {getFrom(cache, storage, key, now, reads)} :
        /\ cache' = r.m
        /\ storage' = r.st
        /\ cacheCall' = [op |-> "get", key |-> key, result |-> r.result]
        /\ UNCHANGED <<now, lastSet>>

\* has(key) is get(key) !== null
Has(key, reads) ==
    \E r \in {getFrom(cache, storage, key, now, reads)} :
        /\ cache' = r.m
        /\ storage' = r.st
        /\ cacheCall' = [op |-> "has", key |-> key, result |-> r.result # Null]
        /\ UNCHANGED <<now, lastSet>>

\* delete(key); removes tells whether localStorage.removeItem succeeds
Delete(key, removes) ==
    /\ cache' = mapDelete(cache, key)
    /\ storage' = IF removes THEN [storage EXCEPT ![key] = Null] ELSE storage
    /\ lastSet' = [lastSet EXCEPT ![key] = Null]
    /\ cacheCall' = [op |-> "delete", key |-> key]
    /\ UNCHANGED now

\* clear(); removes tells whether localStorage can be listed and emptied
Clear(removes) ==
    /\ cache' = <<>>
    /\ storage' = IF removes THEN [k \in Keys |-> Null] ELSE storage
    /\ lastSet' = [k \in Keys |-> Null]
    /\ cacheCall' = [op |-> "clear"]
    /\ UNCHANGED now

\* cleanup()
Cleanup ==
    /\ cache' = cleanup(cache, now)
    /\ cacheCall' = [op |-> "cleanup"]
    /\ UNCHANGED <<storage, now, lastSet>>

\* set(key, BulkValue) for every key of lo..hi in turn, one half after the other
RECURSIVE setRange(_, _, _, _)
setRange(c, lo, hi, t) ==
    IF lo > hi THEN c
    ELSE IF lo = hi
         THEN LET entry == entryOf(BulkValue, t, defaultTTL)
              IN  [m |-> setInMemory(c.m, lo, entry, t),
                   st |-> setInStorage(c.st, lo, entry, TRUE),
                   last |-> [c.last EXCEPT ![lo] = entry]]
         ELSE CHOOSE r \in {setRange(half, (lo + hi) \div 2 + 1, hi, t) :
                             half \in {setRange(c, lo, (lo + hi) \div 2, t)}} : TRUE

\* a caller's run of set calls over the bulk keys, made once until clear()
SetBulk ==
    /\ \A key \in BulkKeys : lastSet[key] = Null
    /\ \E c \in {setRange([m |-> cache, st |-> storage, last |-> lastSet],
                          2, maxSize + 1, now)} :
        /\ cache' = c.m
        /\ storage' = c.st
        /\ lastSet' = c.last
        /\ cacheCall' = [op |-> "setBulk"]
        /\ UNCHANGED now

\* time passes
Tick ==
    /\ now < MaxTime
    /\ now' = now + 1
    /\ UNCHANGED <<cache, storage, cacheCall, lastSet>>

CacheNext ==
    \/ \E key \in HotKeys, value \in Values, ttl \in TTLs, writes \in BOOLEAN :
            Set(key, value, ttl, writes)
    \/ \E key \in HotKeys, reads \in BOOLEAN : Get(key, reads)
    \/ \E key \in HotKeys, reads \in BOOLEAN : Has(key, reads)
    \/ \E key \in HotKeys, removes \in BOOLEAN : Delete(key, removes)
    \/ \E removes \in BOOLEAN : Clear(removes)
    \/ Cleanup
    \/ SetBulk
    \/ Tick

(***************************************************************************)
(* FileParser and CacheService.generateCacheKey                            *)
(* A file is its name, MIME type, size and bytes; text is what file.text() *)
(* reads from it.                                                          *)
(***************************************************************************)
\* one round of hashCode, hash = ((hash << 5) - hash) + char; hash & hash, on the
\* 32-bit pattern of hash kept as two 16-bit halves <<high, low>>
hashStep(h, char) ==
    LET low == h[2] * 31 + char
        high == h[1] * 31 + low \div 65536
    IN  <<high % 65536, low % 65536>>

RECURSIVE hashBits(_, _)
hashBits(array, n) ==
    IF n = 0 THEN <<0, 0>> ELSE hashStep(hashBits(array, n - 1), array[n])

\* hashCode(array): Math.abs of the 32-bit integer, in decimal as the template
\* string writes it
hashCode(array) ==
    LET h == hashBits(array, Len(array))
    IN  IF h[1] < 32768 THEN ToString(h[1] * 65536 + h[2])
        ELSE IF h = <<32768, 0>> THEN "2147483648"
        ELSE ToString((65535 - h[1]) * 65536 + (65536 - h[2]))

\* generateCacheKey(file): `${file.name}_${file.size}_${hash}`
generateCacheKey(file) ==
    file.name \o "_" \o ToString(file.size) \o "_" \o hashCode(file.bytes)

\* file.name.split('.').pop()
lastPiece(name) ==
    LET dots == {i \in 1..Len(name) : CharAt(name, i) = "."}
    IN  IF dots = {} THEN name
        ELSE SubSeq(name, (CHOOSE i \in dots : \A j \in dots : j <= i) + 1, Len(name))

\* getFileType(file)
getFileType(file) ==
    LET extension == toLowerCase(lastPiece(file.name))
        mimeType == toLowerCase(file.type)
    IN  IF extension = "ppt" \/ extension = "pptx" \/ includes(mimeType, "presentation")
        THEN "powerpoint"
        ELSE IF extension = "doc" \/ extension = "docx" \/ includes(mimeType, "document")
        THEN "word"
        ELSE IF extension = "txt" \/ includes(mimeType, "text")
        THEN "text"
        ELSE IF extension = "pdf" \/ includes(mimeType, "pdf")
        THEN "pdf"
        ELSE "unknown"

\* what fetch settles with: a response with its status and parsed JSON body
\* (NotJSON when response.json() rejects), or a rejection (network failure)
NotJSON == [t |-> "not JSON"]
Response(status, body) == [settled |-> "response", status |-> status, body |-> body]
NetworkError == [settled |-> "rejected", message |-> "Failed to fetch"]

\* response.ok
isOk(response) == response.status >= 200 /\ response.status <= 299

\* a check that only rejects a missing or empty text
insufficientContentEmpty(body) ==
    body.text_content = Undefined \/ Len(body.text_content.s) = 0

\* !result.text_content || result.text_content.length < 50
MinContentLength == 50
insufficientContent(body) ==
    \/ body.text_content = Undefined
    \/ Len(body.text_content.s) < MinContentLength

\* the object parsePowerPointWithPython returns
pptxResult(body) ==
    [slideCount |-> body.slide_count, textContent |-> body.text_content,
     slides |-> body.slides,
     metadata |-> [parseMethod |-> "Python python-pptx service"]]

\* the Error the catch block of parsePowerPointWithPython throws
pptxError(message) ==
    Throw("PowerPoint parsing failed. \n\nPython service error: " \o message
          \o "\n\nPlease either:\n1. Start the Python parsing service (python simple_ppt_parser.py)"
          \o "\n2. Convert your PowerPoint to PDF format"
          \o "\n3. Export as plain text from PowerPoint"
          \o "\n\nThis ensures you get accurate analysis of your content instead of technical XML metadata.")

\* parsePowerPointWithPython once the health probe has settled: the error it
\* ends with, or Null when it goes on to send the file
afterHealth(health) ==
    IF health.settled = "rejected" THEN pptxError(health.message)
    ELSE IF ~isOk(health) THEN pptxError("Python parsing service unavailable")
    ELSE Null

\* errorData.error || 'Unknown error', errorData being {} when the body is no JSON
errorOf(body) ==
    IF body = NotJSON \/ body.error = Undefined THEN "Unknown error" ELSE body.error.s

\* parsePowerPointWithPython once the /parse-pptx request has settled
afterParse(response) ==
    IF response.settled = "rejected" THEN pptxError(response.message)
    ELSE IF ~isOk(response)
    THEN pptxError("Python parser error: " \o ToString(response.status) \o " - "
                   \o errorOf(response.body))
    ELSE IF response.body = NotJSON
    THEN pptxError("Unexpected token < in JSON at position 0")
    ELSE IF insufficientContent(response.body)
    THEN pptxError("Python parser returned insufficient content")
    ELSE Return(pptxResult(response.body))

\* parseText(file)
parseText(file) ==
    Return([slideCount |-> Null, textContent |-> Str(file.text), slides |-> Undefined,
            metadata |-> [parseMethod |-> "Direct text"]])

\* parsePDF(file)
parsePDF(file) ==
    Throw("PDF parsing not implemented. Please convert to text or use PowerPoint format.")

\* parseWord(file): mammoth.extractRawText yields the text of the document
parseWord(file) ==
    Return([slideCount |-> Null, textContent |-> Str(file.text), slides |-> Undefined,
            metadata |-> [parseMethod |-> "Mammoth (Word)"]])

\* the parsers of the switch in parseFile that send no request
parseLocally(file, fileType) ==
    IF fileType = "text" THEN parseText(file)
    ELSE IF fileType = "word" THEN parseWord(file)
    ELSE IF fileType = "pdf" THEN parsePDF(file)
    ELSE Throw("Unsupported file type: " \o file.type)

\* createInformedFallback(file, error)
createInformedFallback(file, message) ==
    [slideCount |-> Null,
     textContent |-> Str("File parsing failed for " \o file.name \o ". \n\nError: " \o message
                         \o "\n\nFor PowerPoint files (.ppt/.pptx):"
                         \o "\n1. Start Python parsing service: python simple_ppt_parser.py"
                         \o "\n2. Or convert to PDF format\n3. Or export as plain text"
                         \o "\n\nThis ensures you get your actual presentation content instead of XML metadata."),
     slides |-> Undefined,
     metadata |-> [parseMethod |-> "Failed - service needed", fileName |-> file.name,
                   originalError |-> message]]

(***************************************************************************)
(* OpenAIService.analyzeDesign                                             *)
(***************************************************************************)
\* a response content that is the JSON text of an analysis object
AnalysisText == "{\"presentationType\":{\"primary\":\"Sales & Influence\"}}"

\* JSON.parse on the response contents of the model
JSONParse(text) ==
    IF text = AnalysisText
    THEN Return([presentationType |-> [primary |-> Str("Sales & Influence")],
                 slides |-> Undefined])
    ELSE IF text = "null" THEN Return(Null)
    ELSE Throw("SyntaxError")

\* errorData.error?.message || response.statusText
apiErrorOf(response) ==
    IF response.body.error = Undefined THEN response.statusText
    ELSE response.body.error.message.s

\* an analyzeDesign that hands on the text it cannot parse
analyzeDesignLenient(response) ==
    IF response.settled = "rejected" THEN Throw(response.message)
    ELSE IF response.body = NotJSON THEN Throw("Unexpected token < in JSON at position 0")
    ELSE IF ~isOk(response)
    THEN Throw("OpenAI API Error: " \o ToString(response.status) \o " - "
               \o apiErrorOf(response))
    ELSE IF response.body.content = Undefined
    THEN Return([presentationType |-> Undefined, slides |-> Undefined])
    ELSE IF JSONParse(response.body.content.s).threw
    THEN Return([presentationType |-> Undefined, slides |-> Undefined])
    ELSE JSONParse(response.body.content.s)

\* analyzeDesign once its request has settled: the analysis, or the error it
\* rethrows
analyzeDesign(response) ==
    IF response.settled = "rejected" THEN Throw(response.message)
    ELSE IF response.body = NotJSON THEN Throw("Unexpected token < in JSON at position 0")
    ELSE IF ~isOk(response)
    THEN Throw("OpenAI API Error: " \o ToString(response.status) \o " - "
               \o apiErrorOf(response))
    ELSE IF response.body.content = Undefined
    THEN Throw("Invalid response format from analysis service")
    ELSE IF JSONParse(response.body.content.s).threw
    THEN Throw("Invalid response format from analysis service")
    ELSE JSONParse(response.body.content.s)

(***************************************************************************)
(* The application component: handleFileUpload                             *)
(* ui is the component state; upload is the one handleFileUpload that is   *)
(* running or ran last: where it is, what it sent and what it received.    *)
(***************************************************************************)
MissingKeyMessage == "Please enter your OpenAI API key in the header"

\* a handler without the key check
needsKeyNever(apiKey) == FALSE

\* if (!apiKey)
needsKey(apiKey) == apiKey = ""

\* the state setters at the head of handleFileUpload
uploadStarted(u, file) ==
    [u EXCEPT !.uploadedFile = file, !.loading = TRUE, !.analysis = Null,
              !.error = Null, !.processingStage = "Initializing analysis...",
              !.progressValue = 10]

\* the finally block
uploadSettled(u) ==
    [u EXCEPT !.loading = FALSE, !.processingStage = "", !.progressValue = 0]

\* the catch block, then the finally block
uploadFailed(u, message) == uploadSettled([u EXCEPT !.error = Str(message)])

\* the statements after await analyzeDesign: the slides of the parsed content
\* are attached to the analysis, which is shown on the results tab
uploadAnalysed(u, content, designAnalysis) ==
    IF content.slides # Undefined /\ designAnalysis = Null
    THEN uploadFailed(u, "Cannot set properties of null (setting 'slides')")
    ELSE uploadSettled(
            [u EXCEPT !.analysis = IF content.slides # Undefined
                                   THEN [designAnalysis EXCEPT !.slides = content.slides]
                                   ELSE designAnalysis,
                      !.activeTab = "results",
                      !.progressValue = 100])

\* a handler that shows an analysis whatever analyzeDesign did
uploadFinishedAnyway(u, content, outcome) ==
    uploadAnalysed(u, content,
                   IF outcome.threw THEN [presentationType |-> Undefined, slides |-> Undefined]
                   ELSE outcome.value)

\* handleFileUpload once analyzeDesign has settled
uploadFinished(u, content, outcome) ==
    IF outcome.threw THEN uploadFailed(u, outcome.error)
    ELSE uploadAnalysed(u, content, outcome.value)

(***************************************************************************)
(* Inputs of the upload flow                                               *)
(***************************************************************************)
MaxUploads == 2     \* handleFileUpload calls in one run
MaxHours == 1       \* hours that pass in one run

RECURSIVE Repeat(_, _)
Repeat(s, n) ==
    IF n = 0 THEN ""
    ELSE IF n = 1 THEN s
    ELSE Repeat(s, n \div 2) \o Repeat(s, n - n \div 2)

DeckFile ==
    [name |-> "Q3 Review.PPTX",
     type |-> "application/vnd.openxmlformats-officedocument.presentationml.presentation",
     size |-> 8, bytes |-> <<80, 75, 3, 4, 20, 0, 255, 254>>, text |-> ""]
NotesFile ==
    [name |-> "notes.txt", type |-> "text/plain", size |-> 5,
     bytes |-> <<104, 101, 108, 108, 111>>, text |-> "hello"]
BriefFile ==
    [name |-> "brief.pdf", type |-> "application/pdf", size |-> 4,
     bytes |-> <<37, 80, 68, 70>>, text |-> ""]
Files == {DeckFile, NotesFile, BriefFile}

\* the other presentations a user parses in one sitting, maxSize of them
OtherFile(n) ==
    [name |-> "deck-" \o ToString(n) \o ".pptx", type |-> "", size |-> 1,
     bytes |-> <<n>>, text |-> ""]
OtherKeys == {generateCacheKey(OtherFile(n)) : n \in 1..maxSize}
FileKeys == {generateCacheKey(file) : file \in Files}

SlideList == <<[slide_number |-> 1, layout_type |-> "title"],
               [slide_number |-> 2, layout_type |-> "content"]>>

ParsedBody(text) ==
    [slide_count |-> Num(2), text_content |-> text, slides |-> Arr(SlideList),
     error |-> Undefined]
OtherResult == pptxResult(ParsedBody(Str(Repeat("other deck ", 5))))

HealthResponses ==
    { Response(200, [status |-> "healthy"]), Response(503, NotJSON), NetworkError }

ParseResponses ==
    { Response(200, ParsedBody(Str(Repeat("x", MinContentLength)))),
      Response(200, ParsedBody(Str(Repeat("x", MinContentLength - 1)))),
      Response(200, ParsedBody(Undefined)),
      Response(500, [error |-> Str("No file provided")]),
      Response(502, NotJSON),
      NetworkError }

ModelResponse(status, statusText, body) ==
    [settled |-> "response", status |-> status, statusText |-> statusText, body |-> body]

ModelResponses ==
    { ModelResponse(200, "", [content |-> Str(AnalysisText)]),
      ModelResponse(200, "", [content |-> Str("null")]),
      ModelResponse(200, "", [content |-> Str("Here is my analysis: the deck is fine.")]),
      ModelResponse(200, "", [content |-> Undefined]),
      ModelResponse(401, "Unauthorized",
                    [error |-> [message |-> Str("Incorrect API key provided")]]),
      NetworkError }

ApiKeys == {"", "sk-test"}
Tabs == {"upload", "results"}

(***************************************************************************)
(* The upload flow: the calls and the points where an await resumes        *)
(***************************************************************************)
NoUpload ==
    [pc |-> "idle", file |-> Null, key |-> "", requests |-> <<>>, health |-> Null,
     parse |-> Null, pptx |-> Null, content |-> Null, fromCache |-> FALSE,
     model |-> Null, analyze |-> Null]

UploadInit ==
    /\ ui = [apiKey |-> "", uploadedFile |-> Null, loading |-> FALSE, analysis |-> Null,
             error |-> Null, activeTab |-> "upload", processingStage |-> "",
             progressValue |-> 0]
    /\ upload = NoUpload
    /\ uploads = 0
    /\ parsed = [k \in FileKeys \cup OtherKeys |-> Null]
    /\ failed = {}

UploadCacheInit ==
    /\ cache = <<>>
    /\ storage = [k \in FileKeys \cup OtherKeys |-> Null]
    /\ now = 0
    /\ cacheCall = [op |-> "constructor"]
    /\ lastSet = [k \in Keys |-> Null]

\* the user types or clears the API key
SetApiKey(apiKey) ==
    /\ ui' = [ui EXCEPT !.apiKey = apiKey]
    /\ UNCHANGED <<upload, uploads, parsed, failed, cache, storage, now>>

\* the user selects a tab
SelectTab(tab) ==
    /\ ui' = [ui EXCEPT !.activeTab = tab]
    /\ UNCHANGED <<upload, uploads, parsed, failed, cache, storage, now>>

\* a catch block that caches the record it returns
catchBlockCaching(c, key, file, message, t) ==
    [m |-> setInMemory(c.m, key, entryOf(createInformedFallback(file, message), t, defaultTTL), t),
     st |-> setInStorage(c.st, key,
                         entryOf(createInformedFallback(file, message), t, defaultTTL), TRUE),
     result |-> createInformedFallback(file, message)]

\* the catch block of parseFile: the Map and localStorage as they are, and the
\* record parseFile returns
catchBlock(c, key, file, message, t) ==
    [m |-> c.m, st |-> c.st, result |-> createInformedFallback(file, message)]

\* parseFile has returned content: handleFileUpload goes on to analyzeDesign,
\* which sends the completion request
sendToModel(up, content) ==
    [up EXCEPT !.content = content, !.pc = "model",
               !.requests = Append(@, "model")]

\* handleFileUpload(file, audienceData) up to its first await. The start button
\* is disabled while loading is true.
StartUpload(file) ==
    /\ ui.activeTab = "upload"
    /\ ~ui.loading
    /\ uploads < MaxUploads
    /\ uploads' = uploads + 1
    /\ IF needsKey(ui.apiKey)
       THEN /\ ui' = uploadFailed(uploadStarted(ui, file), MissingKeyMessage)
            /\ upload' = [NoUpload EXCEPT !.pc = "done"]
       ELSE /\ ui' = [uploadStarted(ui, file) EXCEPT
                        !.processingStage = "Parsing file content...",
                        !.progressValue = 30]
            /\ upload' = [NoUpload EXCEPT !.pc = "key", !.file = file]
    /\ UNCHANGED <<parsed, failed, cache, storage, now>>

\* parseFile resumes with the cache key: a cached result is returned; a
\* PowerPoint file goes to the parsing service, first its health probe; any
\* other file is parsed here. reads and writes tell whether localStorage
\* can be read and written.
KeyReady(reads, writes) ==
    /\ upload.pc = "key"
    /\ \E key \in {generateCacheKey(upload.file)} :
       \E r \in {getFrom(cache, storage, key, now, reads)} :
          IF r.result # Null
          THEN /\ upload' = sendToModel([upload EXCEPT !.key = key, !.fromCache = TRUE],
                                        r.result)
               /\ cache' = r.m
               /\ storage' = r.st
               /\ UNCHANGED <<parsed, failed>>
          ELSE IF getFileType(upload.file) = "powerpoint"
          THEN /\ upload' = [upload EXCEPT !.key = key, !.pc = "health",
                                           !.requests = Append(@, "health")]
               /\ cache' = r.m
               /\ storage' = r.st
               /\ UNCHANGED <<parsed, failed>>
          ELSE \E result \in {parseLocally(upload.file, getFileType(upload.file))} :
               IF result.threw
               THEN \E caught \in {catchBlock(r, key, upload.file, result.error, now)} :
                    /\ upload' = sendToModel([upload EXCEPT !.key = key], caught.result)
                    /\ cache' = caught.m
                    /\ storage' = caught.st
                    /\ failed' = failed \cup {key}
                    /\ UNCHANGED parsed
               ELSE \E entry \in {entryOf(result.value, now, defaultTTL)} :
                    /\ upload' = sendToModel([upload EXCEPT !.key = key], result.value)
                    /\ cache' = setInMemory(r.m, key, entry, now)
                    /\ storage' = setInStorage(r.st, key, entry, writes)
                    /\ parsed' = [parsed EXCEPT ![key] = entry]
                    /\ UNCHANGED failed
    /\ ui' = [ui EXCEPT !.processingStage = IF upload'.pc = "model"
                                            THEN "Analyzing with AI..." ELSE @,
                        !.progressValue = IF upload'.pc = "model" THEN 70 ELSE @]
    /\ UNCHANGED <<uploads, now>>

\* the FileReader of generateCacheKey fails to read the file: only onload is
\* set, so the promise parseFile awaits is never settled
ReadFails ==
    /\ upload.pc = "key"
    /\ upload' = [upload EXCEPT !.pc = "unread"]
    /\ UNCHANGED <<ui, uploads, parsed, failed, cache, storage, now>>

\* the health probe settles
HealthSettles(health) ==
    /\ upload.pc = "health"
    /\ \E failure \in {afterHealth(health)} :
          IF failure = Null
          THEN /\ upload' = [upload EXCEPT !.health = health, !.pc = "parse",
                                           !.requests = Append(@, "parse")]
               /\ UNCHANGED <<ui, failed, cache, storage>>
          ELSE \E caught \in {catchBlock([m |-> cache, st |-> storage], upload.key,
                                         upload.file, failure.error, now)} :
               /\ upload' = sendToModel([upload EXCEPT !.health = health, !.pptx = failure],
                                        caught.result)
               /\ ui' = [ui EXCEPT !.processingStage = "Analyzing with AI...",
                                   !.progressValue = 70]
               /\ failed' = failed \cup {upload.key}
               /\ cache' = caught.m
               /\ storage' = caught.st
    /\ UNCHANGED <<uploads, parsed, now>>

\* the /parse-pptx request settles: a result is cached and returned, an error
\* becomes the fallback record
ParseSettles(response, writes) ==
    /\ upload.pc = "parse"
    /\ \E outcome \in {afterParse(response)} :
          IF outcome.threw
          THEN \E caught \in {catchBlock([m |-> cache, st |-> storage], upload.key,
                                         upload.file, outcome.error, now)} :
               /\ upload' = sendToModel([upload EXCEPT !.parse = response, !.pptx = outcome],
                                        caught.result)
               /\ failed' = failed \cup {upload.key}
               /\ cache' = caught.m
               /\ storage' = caught.st
               /\ UNCHANGED parsed
          ELSE \E entry \in {entryOf(outcome.value, now, defaultTTL)} :
               /\ upload' = sendToModel([upload EXCEPT !.parse = response, !.pptx = outcome],
                                        outcome.value)
               /\ cache' = setInMemory(cache, upload.key, entry, now)
               /\ storage' = setInStorage(storage, upload.key, entry, writes)
               /\ parsed' = [parsed EXCEPT ![upload.key] = entry]
               /\ UNCHANGED failed
    /\ ui' = [ui EXCEPT !.processingStage = "Analyzing with AI...", !.progressValue = 70]
    /\ UNCHANGED <<uploads, now>>

\* the completion request settles: handleFileUpload runs to its end. Of the
\* call, the requests it sent and the model's answer stay on record.
ModelSettles(response) ==
    /\ upload.pc = "model"
    /\ \E outcome \in {analyzeDesign(response)} :
          /\ upload' = [NoUpload EXCEPT !.pc = "done", !.requests = upload.requests,
                                          !.model = response, !.analyze = outcome]
          /\ ui' = uploadFinished(ui, upload.content, outcome)
    /\ UNCHANGED <<uploads, parsed, failed, cache, storage, now>>

\* parseFile of maxSize other presentations, one after the other, each parsed
\* by the service and cached in the Map and in localStorage
RECURSIVE parseRange(_, _, _, _, _)
parseRange(c, lo, hi, t, writes) ==
    IF lo > hi THEN c
    ELSE IF lo = hi
         THEN LET entry == entryOf(OtherResult, t, defaultTTL)
                  key == generateCacheKey(OtherFile(lo))
              IN  [m |-> setInMemory(c.m, key, entry, t),
                   st |-> setInStorage(c.st, key, entry, writes)]
         ELSE CHOOSE r \in {parseRange(half, (lo + hi) \div 2 + 1, hi, t, writes) :
                             half \in {parseRange(c, lo, (lo + hi) \div 2, t, writes)}} : TRUE

ParseOthers ==
    /\ upload.pc = "done"
    /\ uploads < MaxUploads
    /\ \A key \in OtherKeys : parsed[key] = Null
    /\ \E c \in {parseRange([m |-> cache, st |-> storage], 1, maxSize, now, TRUE)} :
          /\ cache' = c.m
          /\ storage' = c.st
    /\ parsed' = [k \in DOMAIN parsed |->
                    IF k \in OtherKeys THEN entryOf(OtherResult, now, defaultTTL)
                    ELSE parsed[k]]
    /\ UNCHANGED <<ui, upload, uploads, failed, now>>

\* an hour passes between two calls
HourPasses ==
    /\ upload.pc \in {"idle", "done"}
    /\ now < MaxHours * defaultTTL
    /\ now' = now + defaultTTL
    /\ UNCHANGED <<ui, upload, uploads, parsed, failed, cache, storage>>

UploadNext ==
    \/ \E apiKey \in ApiKeys : SetApiKey(apiKey)
    \/ \E tab \in Tabs : SelectTab(tab)
    \/ \E file \in Files : StartUpload(file)
    \/ \E reads \in BOOLEAN, writes \in BOOLEAN : KeyReady(reads, writes)
    \/ \E health \in HealthResponses : HealthSettles(health)
    \/ \E response \in ParseResponses, writes \in BOOLEAN : ParseSettles(response, writes)
    \/ \E response \in ModelResponses : ModelSettles(response)
    \/ ParseOthers
    \/ HourPasses

(***************************************************************************)
(* The SlideAnalysis component                                             *)
(* slideView is the component's state and props; slideCall is the          *)
(* analyzeCurrentSlide that is running or ran last, with the index and the *)
(* slide its closure captured.                                             *)
(***************************************************************************)
\* value || 0 for a count of the slide
countOr(v) == IF v = Undefined \/ v = Num(0) THEN Num(0) ELSE v

\* value || fallback for a string or an array of the slide
valueOr(v, fallback) == IF v = Undefined \/ v = Str("") THEN fallback ELSE v

\* the object literal fallbackAnalysis of the catch block
fallbackAnalysis(slide, index, message) ==
    [slideOverview |->
        [slideNumber |-> Num(index + 1), contentSummary |-> Str("Analysis failed"),
         slidePurpose |-> Str("Unable to determine"), effectiveness |-> Str("unknown"),
         priority |-> Str("unknown")],
     contentAnalysis |->
        [textContent |->
            [clarity |-> Str("Unable to analyze"), organization |-> Str("Unable to analyze"),
             length |-> Str("unknown"), keyMessages |-> <<Str("Analysis failed")>>,
             improvements |-> <<Str("Please try again or check your API key")>>],
         visualElements |->
            [images |-> [count |-> countOr(slide.images),
                         relevance |-> Str("Unable to analyze"), quality |-> Str("unknown"),
                         recommendations |-> <<Str("Please try again")>>],
             charts |-> [count |-> countOr(slide.charts),
                         effectiveness |-> Str("Unable to analyze"),
                         clarity |-> Str("Unable to analyze"),
                         improvements |-> <<Str("Please try again")>>],
             tables |-> [count |-> countOr(slide.tables),
                         readability |-> Str("Unable to analyze"),
                         structure |-> Str("Unable to analyze"),
                         improvements |-> <<Str("Please try again")>>]]],
     designRecommendations |->
        [layout |->
            [currentLayout |-> valueOr(slide.layout_type, Str("unknown")),
             effectiveness |-> Str("Unable to analyze"),
             recommendedLayout |-> Str("Unable to determine"),
             specificChanges |-> <<Str("Please try analyzing this slide again")>>,
             visualHierarchy |-> Str("Unable to analyze")],
         colorScheme |->
            [currentColors |-> valueOr(slide.colors, Arr(<<>>)),
             effectiveness |-> Str("Unable to analyze"),
             recommendedPalette |-> <<Str("Unable to analyze")>>,
             colorPsychology |-> Str("Unable to analyze"),
             accessibility |-> Str("Unable to analyze")],
         typography |->
            [currentFonts |-> valueOr(slide.fonts, Arr(<<>>)),
             readability |-> Str("Unable to analyze"),
             recommendedFonts |-> <<Str("Unable to analyze")>>,
             sizing |-> Str("Unable to analyze"),
             hierarchy |-> Str("Unable to analyze")]],
     actionItems |->
        [immediate |-> <<Str("Check your OpenAI API key")>>,
         shortTerm |-> <<Str("Try analyzing this slide again")>>,
         longTerm |-> <<Str("Contact support if issue persists")>>],
     error |-> Str(message)]

\* errorData.error || `HTTP ${response.status}: Slide analysis failed`, where
\* errorData is {} when the body is not JSON
slideErrorOf(response) ==
    IF response.body = NotJSON \/ response.body = Null THEN
        "HTTP " \o ToString(response.status) \o ": Slide analysis failed"
    ELSE IF response.body.error = Undefined \/ response.body.error = Str("") THEN
        "HTTP " \o ToString(response.status) \o ": Slide analysis failed"
    ELSE response.body.error.s

\* the record analyzeCurrentSlide stores once its request has settled
slideRecord(response, slide, index) ==
    IF response.settled = "rejected" THEN fallbackAnalysis(slide, index, response.message)
    ELSE IF ~isOk(response) THEN fallbackAnalysis(slide, index, slideErrorOf(response))
    ELSE IF response.body = NotJSON
    THEN fallbackAnalysis(slide, index, "Unexpected token < in JSON at position 0")
    ELSE IF response.body = Null
    THEN fallbackAnalysis(slide, index, "Cannot read properties of null (reading 'error')")
    ELSE response.body

\* a store under the index shown when the request settles
recordIndexShown(call, view) == view.currentSlideIndex

\* [currentSlideIndex]: the index the closure of the call captured
recordIndex(call, view) == call.index

(***************************************************************************)
(* Inputs of the SlideAnalysis component                                   *)
(***************************************************************************)
Slide(number, layout, images) ==
    [slide_number |-> number, layout_type |-> layout, images |-> images,
     charts |-> Undefined, tables |-> Num(0), colors |-> Undefined,
     fonts |-> Arr(<<Str("Calibri")>>)]

ShortDeck == <<Slide(Num(1), Str("title"), Undefined)>>
LongDeck ==
    <<Slide(Num(1), Str("title"), Num(1)), Slide(Undefined, Str(""), Num(0)),
      Slide(Num(3), Undefined, Num(2))>>

AnalysisWith(slides) ==
    [presentationType |-> [primary |-> Str("Sales & Influence")], slides |-> slides]

AnalysisProps ==
    { Null, AnalysisWith(Undefined), AnalysisWith(Arr(<<>>)), AnalysisWith(Arr(ShortDeck)),
      AnalysisWith(Arr(LongDeck)) }

\* the indexes a key of slideAnalyses can have
SlideIndexes == 0..(Len(LongDeck) - 1)

\* an answer of the slide analysis service
SlideAnswer ==
    [slideOverview |-> [contentSummary |-> Str("Opening slide")],
     contentAnalysis |-> [textContent |-> [clarity |-> Str("clear")]],
     designRecommendations |-> [layout |-> [effectiveness |-> Str("good")]],
     actionItems |-> [immediate |-> <<Str("Enlarge the title")>>],
     error |-> Undefined]

SlideResponses ==
    { Response(200, SlideAnswer),
      Response(200, Null),
      Response(200, NotJSON),
      Response(429, [error |-> Str("Rate limit reached")]),
      Response(500, NotJSON),
      NetworkError }

NoSlideCall == [pc |-> "idle", index |-> 0, slide |-> Null, response |-> Null]

\* the component after its first render and effect, with no analysis yet
SlideInit ==
    /\ slideView = [analysis |-> Null, apiKey |-> "", slidesData |-> <<>>,
                    currentSlideIndex |-> 0,
                    slideAnalyses |-> [i \in SlideIndexes |-> Undefined],
                    analyzing |-> FALSE]
    /\ slideCall = NoSlideCall

(***************************************************************************)
(* The component's effect and handlers                                     *)
(***************************************************************************)
\* the parent renders the component with another analysis: the effect runs
AnalysisChanges(analysis) ==
    /\ analysis # slideView.analysis
    /\ slideView' = [slideView EXCEPT
                       !.analysis = analysis,
                       !.slidesData = IF analysis # Null /\ analysis.slides # Undefined
                                      THEN analysis.slides.items ELSE <<>>,
                       !.currentSlideIndex = 0,
                       !.slideAnalyses = [i \in SlideIndexes |-> Undefined]]
    /\ UNCHANGED slideCall

\* the parent renders the component with another API key
SlideKeyChanges(apiKey) ==
    /\ apiKey # slideView.apiKey
    /\ slideView' = [slideView EXCEPT !.apiKey = apiKey]
    /\ UNCHANGED slideCall

\* a click on the card of a slide
SelectSlide(index) ==
    /\ index < Len(slideView.slidesData)
    /\ slideView' = [slideView EXCEPT !.currentSlideIndex = index]
    /\ UNCHANGED slideCall

PreviousSlide ==
    /\ slideView.currentSlideIndex > 0
    /\ slideView' = [slideView EXCEPT !.currentSlideIndex = @ - 1]
    /\ UNCHANGED slideCall

NextSlide ==
    /\ slideView.currentSlideIndex < Len(slideView.slidesData) - 1
    /\ slideView' = [slideView EXCEPT !.currentSlideIndex = @ + 1]
    /\ UNCHANGED slideCall

\* analyzeCurrentSlide up to its await; its button is disabled while analyzing
\* or without an API key
AnalyzeCurrentSlide ==
    /\ ~slideView.analyzing
    /\ slideView.apiKey # ""
    /\ Len(slideView.slidesData) > 0
    /\ slideCall' = [pc |-> "request", index |-> slideView.currentSlideIndex,
                     slide |-> slideView.slidesData[slideView.currentSlideIndex + 1],
                     response |-> Null]
    /\ slideView' = [slideView EXCEPT !.analyzing = TRUE]

\* the /analyze-slide request settles: the answer or the fallback record is
\* stored, then the finally block runs
SlideSettles(response) ==
    /\ slideCall.pc = "request"
    /\ slideView' = [slideView EXCEPT
                       !.slideAnalyses[recordIndex(slideCall, slideView)] =
                            slideRecord(response, slideCall.slide, slideCall.index),
                       !.analyzing = FALSE]
    /\ slideCall' = [slideCall EXCEPT !.pc = "settled", !.response = response]

SlideNext ==
    \/ \E analysis \in AnalysisProps : AnalysisChanges(analysis)
    \/ \E apiKey \in ApiKeys : SlideKeyChanges(apiKey)
    \/ \E index \in SlideIndexes : SelectSlide(index)
    \/ PreviousSlide
    \/ NextSlide
    \/ AnalyzeCurrentSlide
    \/ \E response \in SlideResponses : SlideSettles(response)

(***************************************************************************)
(* KnowledgeService.buildChatContext                                       *)
(***************************************************************************)
FrameworkChars == 2000
DocumentChars == 1000
InsightChars == 1500
RecentEntries == 6

\* String.prototype.substring(start, end)
substring(s, start, end) ==
    SubSeq(s, Min(Max(Min(start, end), 0), Len(s)) + 1, Min(Max(Max(start, end), 0), Len(s)))

\* a substring that keeps the whole string
substringAll(s, start, end) == s

\* Array.prototype.slice(start) with a negative start: the last -start elements
sliceFrom(s, start) ==
    IF start < 0 THEN SubSeq(s, Max(Len(s) + start, 0) + 1, Len(s))
    ELSE SubSeq(s, Min(start, Len(s)) + 1, Len(s))

\* JSON.stringify of a string: quotes, and the characters that need escaping
escapeChar(c) ==
    IF c = "\"" THEN "\\\""
    ELSE IF c = "\\" THEN "\\\\"
    ELSE IF c = "\n" THEN "\\n"
    ELSE c

RECURSIVE escapeString(_)
escapeString(s) ==
    IF Len(s) = 0 THEN ""
    ELSE IF Len(s) = 1 THEN escapeChar(s)
    ELSE escapeString(SubSeq(s, 1, Len(s) \div 2))
         \o escapeString(SubSeq(s, Len(s) \div 2 + 1, Len(s)))

quote(s) == "\"" \o escapeString(s) \o "\""

\* the members JSON.stringify writes for presentationType: undefined ones are left out
typeMembers(presentationType) ==
    IF presentationType.primary = Undefined THEN <<>>
    ELSE <<"\"primary\": " \o quote(presentationType.primary.s)>>

\* one slide of the parsing service inside the slides array, indented by JSON.stringify
slideJSON(slide) ==
    "    {\n      \"slide_number\": " \o ToString(slide.slide_number)
    \o ",\n      \"layout_type\": " \o quote(slide.layout_type) \o "\n    }"

RECURSIVE slidesJSON(_)
slidesJSON(slides) ==
    IF Len(slides) = 1 THEN slideJSON(slides[1])
    ELSE slideJSON(Head(slides)) \o ",\n" \o slidesJSON(Tail(slides))

\* the slides array of an analysis that carries one
slidesMember(analysis) ==
    IF "slides" \notin DOMAIN analysis THEN <<>>
    ELSE IF analysis.slides = Undefined THEN <<>>
    ELSE <<"\"slides\": "
           \o (IF analysis.slides.items = <<>> THEN "[]"
               ELSE "[\n" \o slidesJSON(analysis.slides.items) \o "\n  ]")>>

\* the members of the analysis object, in property order
analysisMembers(analysis) ==
    (IF analysis.presentationType = Undefined THEN <<>>
     ELSE <<"\"presentationType\": "
            \o (IF typeMembers(analysis.presentationType) = <<>> THEN "{}"
                ELSE "{\n    " \o typeMembers(analysis.presentationType)[1] \o "\n  }")>>)
    \o (IF analysis.summary = Undefined THEN <<>>
        ELSE <<"\"summary\": " \o quote(analysis.summary.s)>>)
    \o slidesMember(analysis)

RECURSIVE joinMembers(_)
joinMembers(members) ==
    IF Len(members) = 1 THEN members[1]
    ELSE members[1] \o ",\n  " \o joinMembers(Tail(members))

\* JSON.stringify(presentationAnalysis, null, 2)
JSONStringify(analysis) ==
    LET members == analysisMembers(analysis)
    IN  IF members = <<>> THEN "{}"
        ELSE "{\n  " \o joinMembers(members) \o "\n}"

\* if (this.knowledgeBase.designFramework)
frameworkSection(kb) ==
    IF kb.designFramework = Null THEN ""
    ELSE "DESIGN FRAMEWORK (Design Compass):\n"
         \o substring(kb.designFramework.content, 0, FrameworkChars) \o "\n\n"

\* relevantDocs.forEach
RECURSIVE documentLines(_)
documentLines(docs) ==
    IF docs = <<>> THEN ""
    ELSE Head(docs).name \o ":\n" \o substring(Head(docs).content, 0, DocumentChars) \o "\n\n"
         \o documentLines(Tail(docs))

\* if (relevantDocs.length > 0)
documentsSection(relevantDocs) ==
    IF Len(relevantDocs) > 0
    THEN "RELEVANT COMPANY DOCUMENTS:\n" \o documentLines(relevantDocs)
    ELSE ""

\* presentationAnalysis.presentationType?.primary || 'Unknown'
primaryOf(analysis) ==
    IF analysis.presentationType = Undefined THEN "Unknown"
    ELSE IF analysis.presentationType.primary = Undefined THEN "Unknown"
    ELSE IF analysis.presentationType.primary.s = "" THEN "Unknown"
    ELSE analysis.presentationType.primary.s

\* if (presentationAnalysis)
analysisSection(analysis) ==
    IF analysis = Null THEN ""
    ELSE "CURRENT PRESENTATION ANALYSIS:\n"
         \o "Presentation Type: " \o primaryOf(analysis) \o "\n"
         \o "Key Insights: " \o substring(JSONStringify(analysis), 0, InsightChars) \o "\n\n"

\* a history that keeps the first entries
recentFirst(chatHistory) == SubSeq(chatHistory, 1, Min(RecentEntries, Len(chatHistory)))

\* chatHistory.slice(-6)
recent(chatHistory) == sliceFrom(chatHistory, 0 - RecentEntries)

\* msg.role === 'user' ? 'Designer' : 'AI'
speakerOf(msg) == IF msg.role = "user" THEN "Designer" ELSE "AI"

\* chatHistory.slice(-6).forEach
RECURSIVE historyLines(_)
historyLines(entries) ==
    IF entries = <<>> THEN ""
    ELSE speakerOf(Head(entries)) \o ": " \o Head(entries).content \o "\n"
         \o historyLines(Tail(entries))

\* if (chatHistory.length > 0)
historySection(chatHistory) ==
    IF Len(chatHistory) > 0
    THEN "RECENT CONVERSATION:\n" \o historyLines(recent(chatHistory)) \o "\n"
    ELSE ""

\* a default that is an empty analysis object
analysisOrEmpty(presentationAnalysis) ==
    IF presentationAnalysis = Undefined THEN [presentationType |-> Undefined, summary |-> Undefined]
    ELSE presentationAnalysis

\* the default values of the parameters
analysisOrDefault(presentationAnalysis) ==
    IF presentationAnalysis = Undefined THEN Null ELSE presentationAnalysis

\* buildChatContext(query, presentationAnalysis = null, chatHistory = [])
buildChatContext(kb, query, presentationAnalysis, chatHistory) ==
    LET relevantDocs == searchRelevantDocuments(kb, query, Undefined)
    IN  IF relevantDocs.threw THEN relevantDocs
        ELSE Return(frameworkSection(kb)
                    \o documentsSection(relevantDocs.value)
                    \o analysisSection(analysisOrDefault(presentationAnalysis))
                    \o historySection(chatHistory))

(***************************************************************************)
(* Inputs of buildChatContext                                              *)
(***************************************************************************)
LibraryDocument(name, content) ==
    [name |-> name, content |-> Str(content), type |-> Undefined, size |-> Undefined]

\* the documents of the company, in the order they are added
ContextLibrary ==
    << LibraryDocument("brand-guide.pdf", "Brand colors; CHARTS use brand colors"),
       LibraryDocument("report on charts",
                       "Charts in reports" \o Repeat(" .", 600)),
       LibraryDocument("Design Compass v2.pdf",
                       "The Design Compass on brand and charts" \o Repeat(" .", 1200)),
       LibraryDocument("brand voice", "brand voice and tone"),
       LibraryDocument("charts.txt", "charts and figures"),
       LibraryDocument("brand charts deck", "brand charts in decks") >>

ContextQueries == {Str("brand charts"), Str(""), Undefined}

ContextAnalysis(presentationType, summary) ==
    [presentationType |-> presentationType, summary |-> summary]

ContextAnalyses ==
    { Undefined,
      ContextAnalysis([primary |-> Str("Sales & Influence")], Str("Sharp \"ask\" on slide 2")),
      ContextAnalysis(Undefined, Str(Repeat("Dense slides. ", 120))) }

Message(role, content) == [role |-> role, content |-> content]

SevenMessages ==
    << Message("user", "first question"), Message("assistant", "first answer"),
       Message("user", "second question"), Message("assistant", "second answer"),
       Message("user", "third question"), Message("assistant", "third answer"),
       Message("user", "fourth question") >>

\* a reply of two paragraphs
TwoParagraphs == "Use fewer words.\n\nThen enlarge the chart."

\* a pasted text longer than every truncation limit of the function taken together
PastedText == Repeat("lorem ipsum dolor ", 2048)

ContextHistories ==
    { <<>>,
      <<Message("user", "Which slide is weakest?"), Message("assistant", TwoParagraphs)>>,
      SevenMessages,
      <<Message("user", PastedText)>> }

\* addDocument for the next document of the library
LoadDocument(date) ==
    /\ nextRef < Len(ContextLibrary)
    /\ \E document \in {ContextLibrary[nextRef + 1]} :
       \E keywords \in {extractKeywords(document.content)} :
       \E doc \in {knowledgeDoc(document, nextRef + 1, nextRef + 1, date, keywords.value)} :
          /\ knowledgeBase' = saveKnowledgeBase(storeDocument(knowledgeBase, doc), date)
          /\ nextRef' = nextRef + 1
          /\ kbCall' = [op |-> "addDocument", document |-> document, outcome |-> Return(doc)]
    /\ UNCHANGED kwInput

\* buildChatContext(query, presentationAnalysis, chatHistory)
BuildChatContext(query, presentationAnalysis, chatHistory) ==
    /\ kbCall' = [op |-> "buildChatContext", query |-> query,
                  presentationAnalysis |-> presentationAnalysis,
                  chatHistory |-> chatHistory,
                  outcome |-> buildChatContext(knowledgeBase, query, presentationAnalysis,
                                               chatHistory)]
    /\ knowledgeBase' = baseAfterSearch(knowledgeBase, query)
    /\ UNCHANGED <<nextRef, kwInput>>

ContextNext ==
    \/ \E date \in Dates : LoadDocument(date)
    \/ \E query \in ContextQueries, presentationAnalysis \in ContextAnalyses,
          chatHistory \in ContextHistories :
            BuildChatContext(query, presentationAnalysis, chatHistory)

(***************************************************************************)
(* ChatService and the DesignChat component                                *)
(***************************************************************************)
MaxSends == 2       \* messages a designer sends in one run

\* the phrases of a comparative question
ComparativePhrases ==
    { "which slide needs the most work", "worst slide", "needs the most improvement",
      "biggest issue slide", "top slides to fix" }

SummaryHint ==
    "\n\nNote: Use the SLIDE QUALITY SUMMARY in the context to answer with a ranked list "
    \o "(top 3) and specific reasons drawn from the summary and analysis. "
    \o "Provide slide numbers and concrete next actions."

\* decorateUserMessage(message, context)
decorateUserMessage(message, context) ==
    IF \E k \in ComparativePhrases : includes(toLowerCase(message), k)
    THEN message \o SummaryHint
    ELSE message

\* createSystemMessage(context); the fixed instructions are shortened
createSystemMessage(context) ==
    Message("system",
            "You are a senior presentation design consultant.\n\nCONTEXT PROVIDED:\n"
            \o context \o "\n\nINSTRUCTIONS:\n- Answer design questions")

\* sendMessage up to its fetch: the context and the messages of the request body
requestOf(kb, message, presentationAnalysis, chatHistory) ==
    LET context == buildChatContext(kb, Str(message), presentationAnalysis, chatHistory).value
    IN  [message |-> message,
         presentationAnalysis |-> presentationAnalysis,
         context |-> context,
         messages |-> <<createSystemMessage(context)>>
                      \o sliceFrom(chatHistory, 0 - 10)
                      \o <<Message("user", decorateUserMessage(message, context))>>]

\* sendMessage from the settled fetch on: the response, or the error it throws
sendMessageOutcome(response) ==
    IF response.settled = "rejected" THEN Throw("Chat failed: " \o response.message)
    ELSE IF ~isOk(response)
    THEN Throw("Chat failed: OpenAI API Error: " \o ToString(response.status) \o " - "
               \o response.body.error.message.s)
    ELSE Return([content |-> response.body.content.s])

\* setMessages(prev => [...prev, aiMessage])
withReply(messages, aiMessage) == Append(messages, aiMessage)

\* the analysis the parent passes: none, one without slides, one with the slides
\* of the parsing service
ChatAnalysis(slides) ==
    [presentationType |-> [primary |-> Str("Sales & Influence")], summary |-> Undefined,
     slides |-> slides]
ChatAnalyses == {Null, ChatAnalysis(Undefined), ChatAnalysis(Arr(<<>>)), ChatAnalysis(Arr(SlideList))}

ChatQuestions == {"Which slide needs the most work?", "Is navy blue right for slide 3?"}

ChatResponses ==
    { ModelResponse(200, "", [content |-> Str("Slide 2: split it in two.")]),
      ModelResponse(429, "", [error |-> [message |-> Str("Rate limit reached")]]),
      NetworkError }

\* the component after its first render
ChatInit ==
    chat = [presentationAnalysis |-> Null, messages |-> <<>>, isLoading |-> FALSE,
            request |-> Null, sends |-> 0]

\* handleSendMessage(messageText) up to the await of chatService.sendMessage;
\* turn numbers the questions, for the reply to be matched with its question
HandleSendMessage(message) ==
    /\ message # ""
    /\ ~chat.isLoading
    /\ chat.sends < MaxSends
    /\ \E request \in {requestOf(knowledgeBase, message, chat.presentationAnalysis,
                                 chat.messages)} :
          chat' = [chat EXCEPT
                     !.messages = Append(@, [role |-> "user", content |-> message,
                                             isError |-> FALSE, turn |-> chat.sends + 1]),
                     !.isLoading = TRUE,
                     !.request = request,
                     !.sends = @ + 1]
    /\ knowledgeBase' = baseAfterSearch(knowledgeBase, Str(message))

\* the fetch of sendMessage settles: the rest of handleSendMessage
ChatSettles(response) ==
    /\ chat.request # Null
    /\ \E outcome \in {sendMessageOutcome(response)} :
       \E aiMessage \in {[role |-> "assistant",
                          content |-> IF outcome.threw
                                      THEN "I apologize, but I encountered an error: "
                                           \o outcome.error \o ". Please try again."
                                      ELSE outcome.value.content,
                          isError |-> outcome.threw,
                          turn |-> chat.sends]} :
          chat' = [chat EXCEPT !.messages = withReply(@, aiMessage),
                               !.isLoading = FALSE,
                               !.request = Null]
    /\ UNCHANGED knowledgeBase

\* clearChat
ClearChat ==
    /\ chat' = [chat EXCEPT !.messages = <<>>]
    /\ UNCHANGED knowledgeBase

\* the parent renders the component with another analysis
ChatAnalysisChanges(presentationAnalysis) ==
    /\ presentationAnalysis # chat.presentationAnalysis
    /\ chat' = [chat EXCEPT !.presentationAnalysis = presentationAnalysis]
    /\ UNCHANGED knowledgeBase

ChatNext ==
    \/ \E message \in ChatQuestions : HandleSendMessage(message)
    \/ \E response \in ChatResponses : ChatSettles(response)
    \/ ClearChat
    \/ \E presentationAnalysis \in ChatAnalyses : ChatAnalysisChanges(presentationAnalysis)

(***************************************************************************)
(* The slide quality heuristic (specification section 4.3)                 *)
(*                                                                         *)
(* scoreSlide(slide) gives an integer, higher for a slide that needs more  *)
(* attention.  A slide is described by the number of words of its text     *)
(* (tokens of a split at white space that are not empty), the numbers of   *)
(* its text boxes, shapes, images, charts and tables, and its layout label.*)
(***************************************************************************)
\* step 1: base = min(100, floor(wordCount / 20))
wordTerm(wordCount) == Min(100, wordCount \div 20)

\* step 4 with the test on the words reversed
textOnlyTermShort(slide) ==
    IF slide.imageCount + slide.chartCount + slide.tableCount = 0 /\ slide.wordCount < 30
    THEN 20 ELSE 0
\* step 4: 20 more for a slide of more than 30 words without image, chart or table
textOnlyTerm(slide) ==
    IF slide.imageCount + slide.chartCount + slide.tableCount = 0 /\ slide.wordCount > 30
    THEN 20 ELSE 0

\* steps 1 to 5, in order
scoreSlide(slide) ==
    wordTerm(slide.wordCount)
    + slide.textBoxCount * 2
    + (IF slide.shapeCount > 15 THEN 5 ELSE 0)
    + textOnlyTerm(slide)
    - (IF includes(toLowerCase(slide.layout), "title") THEN 10 ELSE 0)

\* the word counts and the other fields of the slides that are scored
WordCounts == {0, 19, 20, 30, 31, 200, 600, 1999, 2000, 2001, 2020}
QualitySlides ==
    [wordCount : WordCounts, textBoxCount : {0, 1, 3}, shapeCount : {0, 16},
     imageCount : {0, 1}, chartCount : {0}, tableCount : {0, 2},
     layout : {"Title Slide", "content"}]

ScoreInit ==
    scored = [slide |-> Null, wordTerm |-> 0, score |-> 0]

\* scoreSlide(slide) for a slide
ScoreSlide(slide) ==
    scored' = [slide |-> slide, wordTerm |-> wordTerm(slide.wordCount),
               score |-> scoreSlide(slide)]

\* scoreSlide for the slide scored last after text was added to it
ScoreLongerSlide(wordCount) ==
    /\ scored.slide # Null
    /\ wordCount > scored.slide.wordCount
    /\ ScoreSlide([scored.slide EXCEPT !.wordCount = wordCount])

ScoreNext ==
    \/ \E slide \in QualitySlides : ScoreSlide(slide)
    \/ \E wordCount \in WordCounts : ScoreLongerSlide(wordCount)

(***************************************************************************)
(* Specifications                                                          *)
(***************************************************************************)
\* the knowledge service
Init == KBInit /\ CacheInit /\ UploadInit /\ SlideInit /\ ScoreInit /\ ChatInit
KBContextNext ==
    \E query \in {Str("brand charts"), Undefined} :
        BuildChatContext(query, Undefined, SevenMessages)
Next ==
    (KBNext \/ KBContextNext)
    /\ UNCHANGED cacheVars /\ UNCHANGED uploadVars /\ UNCHANGED slideVars /\ UNCHANGED scoreVars /\ UNCHANGED chatVars
Spec == Init /\ [][Next]_vars

\* keyword extraction, one call per input
InitKw == KwInit /\ CacheInit /\ UploadInit /\ SlideInit /\ ScoreInit /\ ChatInit
NextKw == KwNext /\ UNCHANGED cacheVars /\ UNCHANGED uploadVars /\ UNCHANGED slideVars /\ UNCHANGED scoreVars /\ UNCHANGED chatVars
SpecKw == InitKw /\ [][NextKw]_vars

\* the cache service
InitCache == KBInit /\ CacheInit /\ UploadInit /\ SlideInit /\ ScoreInit /\ ChatInit
NextCache == CacheNext /\ UNCHANGED kbVars /\ UNCHANGED uploadVars /\ UNCHANGED slideVars /\ UNCHANGED scoreVars /\ UNCHANGED chatVars
SpecCache == InitCache /\ [][NextCache]_vars

\* file upload: parsing with the cache, then the analysis
InitUpload == KBInit /\ UploadCacheInit /\ UploadInit /\ SlideInit /\ ScoreInit /\ ChatInit
NextUpload ==
    UploadNext /\ UNCHANGED kbVars /\ UNCHANGED <<cacheCall, lastSet>> /\ UNCHANGED slideVars /\ UNCHANGED scoreVars /\ UNCHANGED chatVars
SpecUpload == InitUpload /\ [][NextUpload]_vars

\* file upload in which the file may be unreadable; the FileReader finishes
\* with one of its events and every request sent is settled in the end
UploadFrame ==
    UNCHANGED kbVars /\ UNCHANGED <<cacheCall, lastSet>> /\ UNCHANGED slideVars /\ UNCHANGED scoreVars /\ UNCHANGED chatVars
FileEvent ==
    /\ (\E reads \in BOOLEAN, writes \in BOOLEAN : KeyReady(reads, writes)) \/ ReadFails
    /\ UploadFrame
HealthEvent == (\E health \in HealthResponses : HealthSettles(health)) /\ UploadFrame
ParseEvent ==
    /\ \E response \in ParseResponses, writes \in BOOLEAN : ParseSettles(response, writes)
    /\ UploadFrame
ModelEvent == (\E response \in ModelResponses : ModelSettles(response)) /\ UploadFrame
NextUploadLive == (UploadNext \/ ReadFails) /\ UploadFrame
SpecUploadLive ==
    /\ InitUpload
    /\ [][NextUploadLive]_vars
    /\ WF_vars(FileEvent)
    /\ WF_vars(HealthEvent)
    /\ WF_vars(ParseEvent)
    /\ WF_vars(ModelEvent)

\* the SlideAnalysis component
InitSlides == KBInit /\ CacheInit /\ UploadInit /\ SlideInit /\ ScoreInit /\ ChatInit
NextSlides ==
    SlideNext /\ UNCHANGED kbVars /\ UNCHANGED cacheVars /\ UNCHANGED uploadVars
    /\ UNCHANGED scoreVars /\ UNCHANGED chatVars
SpecSlides == InitSlides /\ [][NextSlides]_vars

\* the context assembler over a growing library
InitContext == KBInit /\ CacheInit /\ UploadInit /\ SlideInit /\ ScoreInit /\ ChatInit
NextContext ==
    ContextNext /\ UNCHANGED cacheVars /\ UNCHANGED uploadVars /\ UNCHANGED slideVars /\ UNCHANGED scoreVars /\ UNCHANGED chatVars
SpecContext == InitContext /\ [][NextContext]_vars

\* the slide quality heuristic, one call per slide
InitScore == KBInit /\ CacheInit /\ UploadInit /\ SlideInit /\ ScoreInit /\ ChatInit
NextScore ==
    ScoreNext /\ UNCHANGED kbVars /\ UNCHANGED cacheVars /\ UNCHANGED uploadVars
    /\ UNCHANGED slideVars /\ UNCHANGED chatVars
SpecScore == InitScore /\ [][NextScore]_vars

\* the chat of the designer with the model
InitChat == KBInit /\ CacheInit /\ UploadInit /\ SlideInit /\ ScoreInit /\ ChatInit
NextChat ==
    ChatNext /\ UNCHANGED <<nextRef, kbCall, kwInput>> /\ UNCHANGED cacheVars
    /\ UNCHANGED uploadVars /\ UNCHANGED slideVars /\ UNCHANGED scoreVars
SpecChat == InitChat /\ [][NextChat]_vars

(***************************************************************************)
(* Claims about the knowledge base                                         *)
(***************************************************************************)
documents == knowledgeBase.documents
designFramework == knowledgeBase.designFramework

\* the last call was addDocument and it returned a document
Added == kbCall.op = "addDocument" /\ ~kbCall.outcome.threw

\* the entries of getAllDocuments() that carry the framework mark
FrameworkHolders ==
    LET all == getAllDocuments(knowledgeBase)
    IN  {i \in 1..Len(all) : "isFramework" \in DOMAIN all[i]}

\* C1: after any sequence of addDocument and removeDocument calls at most one
\* document holds the framework role, the framework document is not an
\* element of the documents list, and a document added under a name that
\* contains "design compass" or "presentation compass" in any letter case is
\* the framework document from then on, alone.
C1_FrameworkExclusive ==
    /\ Cardinality(FrameworkHolders) <= 1
    /\ designFramework # Null =>
            \A i \in 1..Len(documents) : documents[i].ref # designFramework.ref
    /\ (Added /\ (\/ includes(toLowerCase(kbCall.document.name), "design compass")
                  \/ includes(toLowerCase(kbCall.document.name), "presentation compass")))
            => /\ designFramework = kbCall.outcome.value
               /\ \A i \in 1..Len(documents) : documents[i].ref # kbCall.outcome.value.ref
               /\ Cardinality(FrameworkHolders) = 1

\* a framework-named document has just been added to a base that holds an
\* ordinary document and had handed out an object before
C1_Witness ==
    /\ Added
    /\ designFramework # Null
    /\ designFramework.ref = kbCall.outcome.value.ref
    /\ designFramework.ref >= 2
    /\ designFramework.name = "my PRESENTATION COMPASS"
    /\ Len(documents) >= 1

\* the same object with the same name, content and keyword list
SameDocument(d, e) ==
    d.ref = e.ref /\ d.name = e.name /\ d.content = e.content /\ d.keywords = e.keywords

\* C2: a document returned by addDocument stays in getAllDocuments() with the
\* same name, content and keyword list across every later call, and leaves
\* only in a removeDocument call that is given its id.
C2_DocumentStays ==
    [][\A i \in 1..Len(getAllDocuments(knowledgeBase)) :
          LET d == getAllDocuments(knowledgeBase)[i]
          IN  \/ \E j \in 1..Len(getAllDocuments(knowledgeBase')) :
                    SameDocument(d, getAllDocuments(knowledgeBase')[j])
              \/ kbCall'.op = "removeDocument" /\ kbCall'.id = d.id]_vars

\* the last call was searchRelevantDocuments and it returned a list
Searched == kbCall.op = "searchRelevantDocuments" /\ ~kbCall.outcome.threw

\* the position of the object ref in the indexing order: the documents in
\* insertion order, then the framework document
IndexingPosition(ref) ==
    CHOOSE i \in 1..Len(allDocsOf(knowledgeBase)) : allDocsOf(knowledgeBase)[i].ref = ref

\* C3: for every document set, query and limit (a number of entries),
\* searchRelevantDocuments returns no entry with relevanceScore <= 0, at most
\* limit entries (5 when no limit is passed), in non-increasing relevanceScore
\* order, entries of equal score in indexing order.
C3_SearchResultShape ==
    Searched =>
        LET result == kbCall.outcome.value
            limit == IF kbCall.limit = Undefined THEN 5 ELSE kbCall.limit.n
        IN  /\ \A i \in 1..Len(result) : result[i].relevanceScore > 0
            /\ Len(result) <= limit
            /\ \A i, j \in 1..Len(result) :
                    i < j => /\ result[i].relevanceScore >= result[j].relevanceScore
                             /\ result[i].relevanceScore = result[j].relevanceScore
                                    => IndexingPosition(result[i].ref)
                                            < IndexingPosition(result[j].ref)

\* a search with limit 2 over three matching documents returned two of them:
\* the best one, which was not indexed first, and the earlier indexed of two
\* documents with the same score
C3_Witness ==
    /\ Searched
    /\ kbCall.limit = Num(2)
    /\ Len(kbCall.outcome.value) = 2
    /\ Len(allDocsOf(knowledgeBase)) = 3
    /\ IndexingPosition(kbCall.outcome.value[1].ref) > 1
    /\ kbCall.outcome.value[1].relevanceScore > kbCall.outcome.value[2].relevanceScore
    /\ \E i \in 1..3 :
          /\ i > IndexingPosition(kbCall.outcome.value[2].ref)
          /\ scoreDocument(knowledgeBase, allDocsOf(knowledgeBase)[i],
                           extractKeywords(kbCall.query).value)
                = kbCall.outcome.value[2].relevanceScore

\* the query keywords as a set: extractKeywords returns distinct words
QueryKeywordSet ==
    LET ks == extractKeywords(kbCall.query).value
    IN  {ks[i] : i \in 1..Len(ks)}

\* the number of query keywords found in the stored keyword list, in the
\* lower-cased content and in the lower-cased name of a document
ListMatches(doc) ==
    Cardinality({k \in QueryKeywordSet : \E i \in 1..Len(doc.keywords) : doc.keywords[i] = k})
ContentMatches(doc) ==
    Cardinality({k \in QueryKeywordSet : includes(toLowerCase(doc.content), k)})
NameMatches(doc) ==
    Cardinality({k \in QueryKeywordSet : includes(toLowerCase(doc.name), k)})

IsFrameworkDocument(doc) ==
    designFramework # Null /\ designFramework.ref = doc.ref

\* C4: the relevanceScore of a returned document is the sum over the query's
\* keywords of 2 for a keyword in the stored keyword list, 1 for a keyword that
\* is a substring of the lower-cased content and 3 for a keyword that is a
\* substring of the lower-cased name, plus 5 once for the framework document:
\* a framework document matching one keyword by its name only scores 8.
C4_AdditiveScore ==
    Searched =>
        \A i \in 1..Len(kbCall.outcome.value) :
            LET doc == kbCall.outcome.value[i]
            IN  /\ doc.relevanceScore =
                        2 * ListMatches(doc) + ContentMatches(doc) + 3 * NameMatches(doc)
                        + (IF IsFrameworkDocument(doc) THEN 5 ELSE 0)
                /\ (/\ IsFrameworkDocument(doc)
                    /\ NameMatches(doc) = 1
                    /\ ListMatches(doc) = 0
                    /\ ContentMatches(doc) = 0) => doc.relevanceScore = 8

\* a search returned the framework document for one keyword of its name only,
\* together with an ordinary document
C4_Witness ==
    /\ Searched
    /\ Len(kbCall.outcome.value) >= 2
    /\ \E i \in 1..Len(kbCall.outcome.value) :
          LET doc == kbCall.outcome.value[i]
          IN  /\ IsFrameworkDocument(doc)
              /\ NameMatches(doc) = 1
              /\ ListMatches(doc) = 0
              /\ ContentMatches(doc) = 0
    /\ \E i \in 1..Len(kbCall.outcome.value) :
          LET doc == kbCall.outcome.value[i]
          IN  ~IsFrameworkDocument(doc) /\ ListMatches(doc) >= 1 /\ ContentMatches(doc) >= 1

(***************************************************************************)
(* Claims about extractKeywords                                            *)
(***************************************************************************)
\* the last call was extractKeywords on a text
ExtractedText == kbCall.op = "extractKeywords" /\ kbCall.content # Undefined

\* the words of the text: lower-cased, punctuation read as blanks
TextWords == splitWhitespace(replaceNonWord(toLowerCase(kbCall.content.s)))

\* a word the extractor admits: longer than 3 characters and no stopword
Admitted(w) == Len(w) > 3 /\ \A i \in 1..Len(commonWords) : commonWords[i] # w

Frequency(w) == Cardinality({i \in 1..Len(TextWords) : TextWords[i] = w})

FirstAppearance(w) == CHOOSE i \in 1..Len(TextWords) :
                            TextWords[i] = w /\ \A j \in 1..(i - 1) : TextWords[j] # w

\* C5: for every text, extractKeywords returns at most 20 words, all distinct,
\* none of length <= 3, none of the stopword list, in an order of
\* non-increasing frequency in the text.
C5_KeywordList ==
    ExtractedText =>
        /\ ~kbCall.outcome.threw
        /\ LET r == kbCall.outcome.value
           IN  /\ Len(r) <= 20
               /\ \A i, j \in 1..Len(r) : i # j => r[i] # r[j]
               /\ \A i \in 1..Len(r) : Admitted(r[i])
               /\ \A i, j \in 1..Len(r) : i < j => Frequency(r[i]) >= Frequency(r[j])

\* C6: two distinct words of the same frequency appear in the output of
\* extractKeywords in the order of their first appearance in the text, for
\* every admitted word (letters, digits and underscore, longer than 3), and
\* the words kept are the first 20 of the order by frequency and appearance.
C6_TiesInTextOrder ==
    ExtractedText =>
        /\ ~kbCall.outcome.threw
        /\ LET r == kbCall.outcome.value
           IN  /\ \A i, j \in 1..Len(r) :
                     (i < j /\ Frequency(r[i]) = Frequency(r[j]))
                        => FirstAppearance(r[i]) < FirstAppearance(r[j])
               /\ \A k \in 1..Len(TextWords) :
                     (Admitted(TextWords[k]) /\ \A i \in 1..Len(r) : r[i] # TextWords[k])
                        => /\ Len(r) = 20
                           /\ \A i \in 1..Len(r) :
                                 \/ Frequency(r[i]) > Frequency(TextWords[k])
                                 \/ /\ Frequency(r[i]) = Frequency(TextWords[k])
                                    /\ FirstAppearance(r[i]) < FirstAppearance(TextWords[k])

\* C7: extractKeywords returns the empty sequence, and raises no error, when
\* its argument is the empty string or undefined.
C7_EmptyOrUndefinedText ==
    (kbCall.op = "extractKeywords" /\ kbCall.content \in {Str(""), Undefined})
        => kbCall.outcome = Return(<<>>)

(***************************************************************************)
(* Claims about the cache                                                  *)
(***************************************************************************)
\* C8: after set(k, v, ttl) at time t, with no later set, delete or clear of
\* k, get(k) returns v before t + ttl and null from t + ttl on, whatever was
\* done with other keys in between.
C8_RoundTrip ==
    (cacheCall.op = "get" /\ lastSet[cacheCall.key] # Null) =>
        LET entry == lastSet[cacheCall.key]
        IN  IF now < entry.timestamp + entry.ttl
            THEN cacheCall.result = entry.value
            ELSE cacheCall.result = Null

\* C9: after any sequence of set, get, has, delete, clear and cleanup calls
\* the Map holds at most maxSize (50) entries.
C9_SizeBound == Len(cache) <= 50

\* the positions of the Map whose entries are unexpired
Unexpired(m, t) == {i \in 1..Len(m) : t - m[i].entry.timestamp < m[i].entry.ttl}

\* the positions of the Map before a call to key whose keys are gone after it;
\* the entry of key itself is replaced by the call
Removed(key) ==
    {i \in 1..Len(cache) :
        cache[i].key # key /\ \A j \in 1..Len(cache') : cache'[j].key # cache[i].key}

\* the entries other than key's that the call leaves in the Map are unchanged
OthersKept(key) ==
    \A i \in 1..Len(cache) :
        cache[i].key # key =>
            \A j \in 1..Len(cache') : cache'[j].key = cache[i].key => cache'[j] = cache[i]

\* the step is one set call
SetStep == cacheCall'.op = "set" /\ now' = now /\ cache' # cache

\* C10: eviction is oldest-first. A set call that finds maxSize entries, none
\* expired, removes exactly one entry, one with the smallest timestamp (the
\* entry of the key being set is replaced in any case); a set call that finds
\* the cache full removes every expired entry, and removes an unexpired one
\* only when maxSize unexpired entries remain; a set call that finds fewer
\* than maxSize entries removes nothing.
C10_OldestFirst ==
    [][SetStep =>
        \E key \in {cacheCall'.key} :
        \E valid \in {Unexpired(cache, now)} :
        \E removed \in {Removed(key)} :
            /\ OthersKept(key)
            /\ cacheCall'.evicted \ {key} = {cache[i].key : i \in removed}
            /\ (Len(cache) = 50 /\ valid = 1..Len(cache)) =>
                    \E i \in 1..Len(cache) :
                        /\ \A j \in 1..Len(cache) :
                                cache[i].entry.timestamp <= cache[j].entry.timestamp
                        /\ removed = IF cache[i].key = key THEN {} ELSE {i}
                        /\ cacheCall'.evicted = {cache[i].key}
            /\ Len(cache) >= 50 =>
                    /\ \A i \in 1..Len(cache) :
                            (i \notin valid /\ cache[i].key # key) => i \in removed
                    /\ removed \cap valid # {} => Cardinality(valid) >= 50
            /\ Len(cache) < 50 => removed = {}]_vars

\* a set call found the cache full of unexpired entries and evicted one entry,
\* which had been set at an earlier time than now
C10_Witness ==
    /\ cacheCall.op = "set"
    /\ cacheCall.sizeBefore = maxSize
    /\ cacheCall.expiredBefore = {}
    /\ Cardinality(cacheCall.evicted) = 1
    /\ \E k \in cacheCall.evicted : k # cacheCall.key /\ lastSet[k].timestamp < now
    /\ \E i \in 1..Len(cache) : cache[i].entry.timestamp = now

(***************************************************************************)
(* Claims about file parsing and the upload flow                           *)
(***************************************************************************)
\* parseFile resumes with its cache key in this step
ParseFileResumes == upload.pc = "key" /\ upload'.pc # "key"

\* the file was parsed successfully before and the ttl of that result has not elapsed
ParsedWithinTTL(key) == parsed[key] # Null /\ isValid(parsed[key], now)

\* C11: after parseFile succeeded for a file, a second parseFile of a file with
\* the same name, size and bytes before the one-hour ttl has elapsed returns the
\* cached result and sends no request to the parsing service, neither /health
\* nor /parse-pptx.
C11_CachedWithinTTL ==
    [][ ParseFileResumes =>
          \A key \in {generateCacheKey(upload.file)} :
             ParsedWithinTTL(key)
                => /\ upload'.content = parsed[key].value
                   /\ upload'.requests = <<"model">> ]_vars

\* handleFileUpload ends in this step
UploadEnds == upload.pc # "done" /\ upload'.pc = "done"

\* parsePowerPointWithPython failed in the running call
ParserFailed == upload.pptx # Null /\ upload.pptx.threw

\* C12: when the parsing service is unreachable, answers with a non-2xx status
\* or returns fewer than 50 characters of text during handleFileUpload of a
\* PowerPoint file, the flow ends with the error state set and no analysis.
C12_ParserFailureSurfaced ==
    [][ (UploadEnds /\ ParserFailed) => (ui'.error # Null /\ ui'.analysis = Null) ]_vars

\* handleFileUpload is called in this step
UploadCalled == uploads' = uploads + 1

\* C13: handleFileUpload without an API key sets the error state to the
\* missing-key message and loading to false and ends; it sends no request to the
\* parsing service and none to the model service.
C13_MissingKey ==
    [][ (UploadCalled /\ ui.apiKey = "")
          => /\ ui'.error = Str(MissingKeyMessage)
             /\ ~ui'.loading
             /\ ui'.analysis = Null
             /\ upload'.pc = "done"
             /\ upload'.requests = <<>> ]_vars

\* a call without a key has ended, after an earlier call with a key had sent
\* its requests
C13_Witness ==
    /\ upload.pc = "done"
    /\ upload.requests = <<>>
    /\ ui.apiKey = ""
    /\ ui.error = Str(MissingKeyMessage)
    /\ ~ui.loading
    /\ uploads = 2

InvalidFormatMessage == "Invalid response format from analysis service"

\* the model service answered 2xx with a completion whose content is not JSON
ContentNotJSON(response) ==
    /\ response # Null
    /\ response.settled = "response"
    /\ response.body # NotJSON
    /\ response.status \in 200..299
    /\ \/ response.body.content = Undefined
       \/ JSONParse(response.body.content.s).threw

\* C14: when the content the model returns is not valid JSON, analyzeDesign
\* fails with an error, and handleFileUpload ends with the error state set to
\* that error's message, the analysis null, the active tab not switched to
\* results, and loading false.
C14_InvalidModelContent ==
    [][ (UploadEnds /\ ContentNotJSON(upload'.model))
          => /\ upload'.analyze.threw
             /\ upload'.analyze.error = InvalidFormatMessage
             /\ ui'.error = Str(upload'.analyze.error)
             /\ ui'.analysis = Null
             /\ ui'.activeTab = ui.activeTab
             /\ ~ui'.loading ]_vars

\* a call has ended on prose content of the model, after the presentation had
\* been parsed by the service
C14_Witness ==
    /\ upload.pc = "done"
    /\ upload.requests = <<"health", "parse", "model">>
    /\ ContentNotJSON(upload.model)
    /\ upload.model.body.content # Undefined
    /\ ui.error = Str(InvalidFormatMessage)
    /\ ui.activeTab = "upload"

\* the answers the running parsePowerPointWithPython received
HealthOk ==
    /\ upload.health # Null
    /\ upload.health.settled = "response"
    /\ upload.health.status \in 200..299

ParseOk ==
    /\ upload.parse # Null
    /\ upload.parse.settled = "response"
    /\ upload.parse.status \in 200..299

EnoughText ==
    /\ upload.parse.body # NotJSON
    /\ upload.parse.body.text_content # Undefined
    /\ Len(upload.parse.body.text_content.s) >= 50

\* C16: parsePowerPointWithPython returns a result only if /health answered
\* 2xx, /parse-pptx answered 2xx and the text_content returned has at least 50
\* characters; in every other case it fails with an error; and when the health
\* probe fails, /parse-pptx is never sent.
C16_ParserResult ==
    /\ upload.pptx # Null =>
          /\ ~upload.pptx.threw <=> (HealthOk /\ ParseOk /\ EnoughText)
          /\ ~upload.pptx.threw =>
                /\ upload.pptx.value.textContent = upload.parse.body.text_content
                /\ upload.content = upload.pptx.value
          /\ upload.pptx.threw => Len(upload.pptx.error) > 0
    /\ (upload.health # Null /\ ~HealthOk) => ~SeqIncludes(upload.requests, "parse")
    /\ (upload.pc # "done" /\ SeqIncludes(upload.requests, "parse")) => HealthOk

\* the parser returned a result for a text of exactly 50 characters
C16_Witness ==
    /\ upload.pc = "model"
    /\ upload.pptx # Null
    /\ ~upload.pptx.threw
    /\ Len(upload.pptx.value.textContent.s) = 50

\* the orders in which one call can send its requests
RequestOrders ==
    { <<>>, <<"health">>, <<"health", "parse">>, <<"health", "parse", "model">>,
      <<"health", "model">>, <<"model">> }

\* C17: within one handleFileUpload the requests are sent one at a time, each at
\* most once, in the order health probe, parse request, model request; the model
\* request is sent only after parsing has completed; no request is repeated
\* after a failure; and the analysis is set only after the model request
\* succeeded.
C17_RequestOrder ==
    /\ upload.requests \in RequestOrders
    /\ upload.pc \in {"idle", "key"} => upload.requests = <<>>
    /\ upload.pc \in {"health", "parse", "model"} =>
          /\ upload.requests # <<>>
          /\ upload.requests[Len(upload.requests)] = upload.pc
          /\ (SeqIncludes(upload.requests, "health") /\ upload.pc # "health")
                => upload.health # Null
          /\ (SeqIncludes(upload.requests, "parse") /\ upload.pc # "parse")
                => upload.parse # Null
          /\ upload.pc = "model" => upload.content # Null
    /\ ui.analysis # Null =>
          /\ upload.pc = "done"
          /\ upload.requests # <<>>
          /\ upload.requests[Len(upload.requests)] = "model"
          /\ upload.model.settled = "response"
          /\ upload.model.status \in 200..299
          /\ ~upload.analyze.threw

\* the second call has sent all three requests and its analysis is shown with
\* the slides of the parsed presentation
C17_Witness ==
    /\ upload.pc = "done"
    /\ uploads = 2
    /\ upload.requests = <<"health", "parse", "model">>
    /\ ui.analysis # Null
    /\ ui.analysis.slides = Arr(SlideList)
    /\ ui.activeTab = "results"

(***************************************************************************)
(* Claims about the SlideAnalysis component                                *)
(***************************************************************************)
\* the request of the running analyzeCurrentSlide settles in this step
SlideRequestSettles == slideCall.pc = "request" /\ slideCall'.pc = "settled"

\* the request was answered 2xx with a JSON object
SlideSucceeded(response) ==
    /\ response.settled = "response"
    /\ response.status \in 200..299
    /\ response.body # NotJSON
    /\ response.body # Null

\* no section of the record is missing
FullyPopulated(record) ==
    /\ record # Undefined
    /\ record.slideOverview # Undefined
    /\ record.contentAnalysis # Undefined
    /\ record.designRecommendations # Undefined
    /\ record.actionItems # Undefined

BuiltContext == kbCall.op = "buildChatContext" /\ ~kbCall.outcome.threw

Context == kbCall.outcome.value

\* the sources of the four sections
Framework == knowledgeBase.designFramework
Found == searchRelevantDocuments(knowledgeBase, kbCall.query, Undefined).value
Analysis == kbCall.presentationAnalysis
History == kbCall.chatHistory

FrameworkHeader == "DESIGN FRAMEWORK (Design Compass):\n"
DocumentsHeader == "RELEVANT COMPANY DOCUMENTS:\n"
AnalysisHeader == "CURRENT PRESENTATION ANALYSIS:\n"
HistoryHeader == "RECENT CONVERSATION:\n"

\* the first n characters of s
First(s, n) == IF Len(s) <= n THEN s ELSE SubSeq(s, 1, n)

\* the pieces of a sequence of strings, one after the other
RECURSIVE Join(_)
Join(pieces) == IF pieces = <<>> THEN "" ELSE Head(pieces) \o Join(Tail(pieces))

\* the last n entries of a sequence, or all of them
Last(entries, n) ==
    IF Len(entries) <= n THEN entries
    ELSE [i \in 1..n |-> entries[Len(entries) - n + i]]

ExpectedFramework ==
    IF Framework = Null THEN ""
    ELSE FrameworkHeader \o First(Framework.content, 2000) \o "\n\n"

ExpectedDocuments ==
    IF Found = <<>> THEN ""
    ELSE DocumentsHeader
         \o Join([i \in 1..Len(Found) |->
                    Found[i].name \o ":\n" \o First(Found[i].content, 1000) \o "\n\n"])

ExpectedAnalysis ==
    IF Analysis = Undefined THEN ""
    ELSE AnalysisHeader
         \o "Presentation Type: "
         \o (IF Analysis.presentationType = Undefined THEN "Unknown"
             ELSE Analysis.presentationType.primary.s)
         \o "\n"
         \o "Key Insights: " \o First(JSONStringify(Analysis), 1500) \o "\n\n"

Label(entry) == IF entry.role = "user" THEN "Designer" ELSE "AI"

ExpectedHistory ==
    IF History = <<>> THEN ""
    ELSE HistoryHeader
         \o Join([i \in 1..Len(Last(History, 6)) |->
                    Label(Last(History, 6)[i]) \o ": " \o Last(History, 6)[i].content \o "\n"])
         \o "\n"

\* C18 (as amended): buildChatContext emits its sections in a fixed order:
\* framework content (at most 2000 characters of it), then at most 5 relevant
\* documents in search order (at most 1000 characters of content each), then
\* the analysis section (primary type and at most 1500 characters of serialized
\* analysis), then at most the last 6 history entries in their original order,
\* each entry as its speaker label, a colon, its content and a line break.
C18_SectionsInOrder ==
    BuiltContext =>
       /\ Len(Found) <= 5
       /\ Context = ExpectedFramework \o ExpectedDocuments \o ExpectedAnalysis
                    \o ExpectedHistory

\* the number of line breaks of a string
LineBreaks(s) == Cardinality({i \in 1..Len(s) : CharAt(s, i) = "\n"})

\* the history section of the context returned
HistoryPart == SubSeq(Context, Len(Context) - Len(ExpectedHistory) + 1, Len(Context))

\* C18 (as stated): the sections are emitted in that order, and the history
\* section has one line per entry: its lines are the header, one line for each
\* of the entries, and the closing blank line.
C18_OneLinePerEntry ==
    BuiltContext =>
       /\ C18_SectionsInOrder
       /\ History # <<>> => LineBreaks(HistoryPart) = Len(Last(History, 6)) + 2

\* a call in which every section is present and every limit cuts: a framework
\* of more than 2000 characters, six documents that match of which one has more
\* than 1000 characters, an analysis of more than 1500 characters of JSON and a
\* history of seven entries
C18_Witness ==
    /\ BuiltContext
    /\ Framework # Null
    /\ Len(Framework.content) > 2000
    /\ Len(knowledgeBase.documents) = 5
    /\ Len(Found) = 5
    /\ \E i \in 1..Len(Found) : Len(Found[i].content) > 1000
    /\ Analysis # Undefined
    /\ Len(JSONStringify(Analysis)) > 1500
    /\ Len(History) = 7
    /\ Len(Context) > 0

\* the text of a section's header occurs in the context
Appears(header) == includes(Context, header)

\* C19: each section of the context appears if and only if its source is
\* present (a framework document exists; the search returns at least one
\* document; an analysis was supplied; the history is not empty), and with no
\* framework document, no relevant document, no analysis and an empty history
\* buildChatContext returns the empty string.
C19_SectionsIffSources ==
    BuiltContext =>
       /\ Appears(FrameworkHeader) <=> Framework # Null
       /\ Appears(DocumentsHeader) <=> Found # <<>>
       /\ Appears(AnalysisHeader) <=> Analysis # Undefined
       /\ Appears(HistoryHeader) <=> History # <<>>
       /\ (Framework = Null /\ Found = <<>> /\ Analysis = Undefined /\ History = <<>>)
             => Context = ""

\* with documents in the base, none of them relevant to the query, no framework,
\* no analysis and no history, the context is the empty string
C19_Witness ==
    /\ BuiltContext
    /\ Len(knowledgeBase.documents) = 2
    /\ Framework = Null
    /\ Found = <<>>
    /\ Analysis = Undefined
    /\ History = <<>>
    /\ Context = ""

\* the length of a context in which the framework content, every document
\* content and the serialized analysis are as long as their limits allow, and
\* every part the function copies (the names of the 5 documents, the primary
\* type, the contents of the 6 messages) is as long as the largest of the limits
ContextLimit ==
    Len(FrameworkHeader) + FrameworkChars + 2
    + Len(DocumentsHeader) + DefaultLimit * (FrameworkChars + 2 + DocumentChars + 2)
    + Len(AnalysisHeader) + Len("Presentation Type: ") + FrameworkChars + 1
    + Len("Key Insights: ") + InsightChars + 2
    + Len(HistoryHeader) + RecentEntries * (Len("Designer: ") + FrameworkChars + 1) + 1

\* C20: the string buildChatContext returns has bounded length: at most a fixed
\* constant that does not depend on the sizes of document names, document
\* contents, the analysis object or the contents of history messages.
C20_BoundedLength == BuiltContext => Len(Context) <= ContextLimit

(***************************************************************************)
(* Claims about the statistics of the knowledge base                       *)
(***************************************************************************)
\* what getStats() returns in the current state
Stats == getStats(knowledgeBase)

\* the step is an addDocument that returned its document
AddStep == kbCall'.op = "addDocument" /\ nextRef' = nextRef + 1

\* the name matches the framework pattern
MatchesPattern(name) ==
    \E piece \in {"design compass", "presentation compass"} : includes(toLowerCase(name), piece)

\* C22: after a document whose name matches the framework pattern is added,
\* getStats reports hasFramework true and frameworkName equal to that name; an
\* addDocument of a name that does not match the pattern leaves hasFramework and
\* frameworkName as they were and increases documents and totalDocuments by
\* exactly 1.
C22_StatsAfterAdd ==
    [][AddStep =>
         IF MatchesPattern(kbCall'.document.name)
         THEN /\ Stats'.hasFramework
              /\ Stats'.frameworkName = Str(kbCall'.document.name)
         ELSE /\ Stats'.hasFramework = Stats.hasFramework
              /\ Stats'.frameworkName = Stats.frameworkName
              /\ Stats'.documents = Stats.documents + 1
              /\ Stats'.totalDocuments = Stats.totalDocuments + 1]_vars

\* getStats after 'Design Compass v2.pdf' and then two other documents were added
C22_Witness ==
    /\ kbCall.op = "getStats"
    /\ kbCall.outcome.value.hasFramework
    /\ kbCall.outcome.value.frameworkName = Str("Design Compass v2.pdf")
    /\ kbCall.outcome.value.documents = 2
    /\ kbCall.outcome.value.totalDocuments = 3
    /\ \A i \in 1..2 : knowledgeBase.documents[i].ref > knowledgeBase.designFramework.ref

(***************************************************************************)
(* Claims about stored keywords                                            *)
(***************************************************************************)
\* the stored documents: the list and the framework document
StoredDocuments ==
    {allDocsOf(knowledgeBase)[i] : i \in 1..Len(allDocsOf(knowledgeBase))}

\* C24: every keyword in a stored document's keyword list is a substring of the
\* document's lower-cased content; hence, for every stored document and every
\* keyword of a query, the keyword's contribution to the score is one of 0, 1,
\* 3, 4 and 6 (never 2 or 5), and a document that is not the framework has a
\* positive score only if some query keyword is a substring of its lower-cased
\* content or name.
C24_KeywordsFromContent ==
    /\ \A doc \in StoredDocuments : \A i \in 1..Len(doc.keywords) :
          includes(toLowerCase(doc.content), doc.keywords[i])
    /\ Searched =>
         \A doc \in StoredDocuments :
            /\ \A k \in QueryKeywordSet : keywordScore(doc, k) \in {0, 1, 3, 4, 6}
            /\ (~IsFrameworkDocument(doc)
                /\ scoreDocument(knowledgeBase, doc, extractKeywords(kbCall.query).value) > 0)
                  => \E k \in QueryKeywordSet :
                        \/ includes(toLowerCase(doc.content), k)
                        \/ includes(toLowerCase(doc.name), k)

\* a search whose keywords contribute 6 (list, content and name) to one stored
\* document, 3 (list and content) to another and 3 (name only) to a third
C24_Witness ==
    /\ Searched
    /\ \E doc \in StoredDocuments, k \in QueryKeywordSet :
          SeqIncludes(doc.keywords, k) /\ keywordScore(doc, k) = 6
    /\ \E doc \in StoredDocuments, k \in QueryKeywordSet :
          SeqIncludes(doc.keywords, k) /\ keywordScore(doc, k) = 3
    /\ \E doc \in StoredDocuments, k \in QueryKeywordSet :
          ~SeqIncludes(doc.keywords, k) /\ keywordScore(doc, k) = 3

(***************************************************************************)
(* Claims about the calls that only read the knowledge base                *)
(***************************************************************************)
ReadCalls == {"searchRelevantDocuments", "buildChatContext", "getAllDocuments", "getStats"}

\* the step is one of the reading calls
ReadStep == kbCall'.op \in ReadCalls

\* the fields of a stored document
StoredFields == {"ref", "id", "name", "content", "type", "keywords", "uploadDate", "size"}

\* C29: searchRelevantDocuments, buildChatContext, getAllDocuments and getStats
\* leave the knowledge base unchanged: the documents list, the framework
\* document, the fields of every stored document (none gains a relevanceScore
\* or an isFramework field) and lastUpdated are the same after the call as before.
C29_ReadsLeaveBase ==
    [][ReadStep =>
         /\ knowledgeBase'.documents = knowledgeBase.documents
         /\ knowledgeBase'.designFramework = knowledgeBase.designFramework
         /\ knowledgeBase'.lastUpdated = knowledgeBase.lastUpdated
         /\ \A i \in 1..Len(knowledgeBase'.documents) :
               DOMAIN knowledgeBase'.documents[i] = StoredFields
         /\ knowledgeBase'.designFramework # Null =>
               DOMAIN knowledgeBase'.designFramework = StoredFields]_vars

\* a buildChatContext over a framework and two listed documents that returned
\* the framework and a listed document with their scores
C29_Witness ==
    /\ kbCall.op = "buildChatContext"
    /\ ~kbCall.outcome.threw
    /\ knowledgeBase.designFramework # Null
    /\ Len(knowledgeBase.documents) = 2
    /\ includes(kbCall.outcome.value, "RELEVANT COMPANY DOCUMENTS:\n")
    /\ Len(searchRelevantDocuments(knowledgeBase, kbCall.query, Undefined).value) >= 2

(***************************************************************************)
(* Claims about stale cache entries                                        *)
(***************************************************************************)
\* C25: get(k) returns either null or the value passed to the most recent
\* set(k, ...) that no delete(k) or clear followed; it never returns the value
\* of an earlier set of k, also when a write to localStorage failed and the
\* entry in memory was evicted or has expired.
C25_NoStaleValue ==
    cacheCall.op = "get" =>
        \/ cacheCall.result = Null
        \/ /\ lastSet[cacheCall.key] # Null
           /\ cacheCall.result = lastSet[cacheCall.key].value

(***************************************************************************)
(* Claims about the cache of parsed files                                  *)
(***************************************************************************)
\* the record createInformedFallback builds
IsFallback(content) ==
    /\ content # Null
    /\ "metadata" \in DOMAIN content
    /\ "parseMethod" \in DOMAIN content.metadata
    /\ content.metadata.parseMethod = "Failed - service needed"

\* in this step a parser run by parseFile fails: parseWord, parsePDF or the
\* default case, or the health probe or the parse request of the service
LocalParserFails ==
    /\ upload.pc = "key"
    /\ upload'.pc # "key"
    /\ ~upload'.fromCache
    /\ getFileType(upload.file) # "powerpoint"
    /\ parseLocally(upload.file, getFileType(upload.file)).threw

ServiceParserFails ==
    /\ upload.pc \in {"health", "parse"}
    /\ upload'.pptx # Null
    /\ upload'.pptx.threw

\* the entries of the Map and of localStorage
MapEntries(m) == {m[i] : i \in 1..Len(m)}

UploadReset == ~ui.loading /\ ui.processingStage = "" /\ ui.progressValue = 0

\* C28: every handleFileUpload call resets, in the end, loading to false,
\* processingStage to the empty string and progressValue to 0, whatever comes
\* of reading the file for the cache key, of the parsing and of the model
\* call, provided that every request sent is settled in the end.
C28_UploadResets == ui.loading ~> UploadReset

(***************************************************************************)
(* Claims about the indexes of the SlideAnalysis component                 *)
(***************************************************************************)
\* Object.keys(slideAnalyses)
AnalysedKeys == {i \in SlideIndexes : slideView.slideAnalyses[i] # Undefined}

\* getAnalyzedCount() and getTotalCount()
AnalyzedCount == Cardinality(AnalysedKeys)
TotalCount == Len(slideView.slidesData)

IndexesInRange ==
    /\ TotalCount > 0 => slideView.currentSlideIndex \in 0..(TotalCount - 1)
    /\ \A i \in AnalysedKeys : i \in 0..(TotalCount - 1)
    /\ AnalyzedCount <= TotalCount

\* C30: after any sequence of selectSlide, previousSlide, nextSlide, settled
\* analyzeCurrentSlide calls and changes of the analysis prop, currentSlideIndex
\* is an index of slidesData whenever slidesData is not empty, every key of
\* slideAnalyses is an index of the current slidesData and the analyzed count is
\* at most the total count; a change of the analysis prop sets the index to 0
\* and empties slideAnalyses.
C30_IndexesInRange ==
    [][/\ IndexesInRange'
       /\ slideView'.analysis # slideView.analysis =>
             /\ slideView'.currentSlideIndex = 0
             /\ AnalysedKeys' = {}]_vars

(***************************************************************************)
(* Claims about the slide quality heuristic                                *)
(***************************************************************************)
\* a step that scores the slide scored last with more words, all else equal
WordsAdded ==
    /\ scored.slide # Null
    /\ scored'.slide # Null
    /\ scored'.slide.wordCount > scored.slide.wordCount
    /\ scored'.slide = [scored.slide EXCEPT !.wordCount = scored'.slide.wordCount]

\* C23: scoreSlide is monotonic in the word count: with all other fields of the
\* slide fixed, more words (200 to 2000 among them) never give a lower score,
\* and the part of the score that comes from min(100, floor(wordCount / 20))
\* is never more than 100.
C23_MonotonicInWords ==
    [][/\ WordsAdded => scored'.score >= scored.score
       /\ scored'.wordTerm <= 100]_vars

\* a slide of 2000 words is scored: its word term is at the cap and its score
\* is 90 above the score of the same slide with 200 words
C23_Witness ==
    /\ scored.slide # Null
    /\ scored.slide.wordCount = 2000
    /\ scored.wordTerm = 100
    /\ scored.score = scoreSlide([scored.slide EXCEPT !.wordCount = 200]) + 90

(***************************************************************************)
(* Claims about the slide quality summary                                  *)
(***************************************************************************)
\* the analysis of a request carries a slide list that is not empty
HasSlides(analysis) ==
    /\ analysis # Null
    /\ analysis.slides # Undefined
    /\ Len(analysis.slides.items) > 0

\* C21: when buildChatContext is given an analysis with a slide list that is
\* not empty, the context holds the slide quality summary, so that the hint
\* decorateUserMessage adds to a comparative question names a part of the
\* context that is there.
C21_SummaryInContext ==
    (chat.request # Null /\ HasSlides(chat.request.presentationAnalysis))
        => includes(chat.request.context, "SLIDE QUALITY SUMMARY")

(***************************************************************************)
(* Claims about the transcript of the chat                                 *)
(***************************************************************************)
\* C27: under every interleaving of handleSendMessage, clearChat and the
\* arrival of a response or error, each assistant message in the list comes
\* right after the user message it answers; a reply to a request sent before
\* clearChat is not shown in the cleared transcript.
C27_ReplyFollowsQuestion ==
    \A i \in 1..Len(chat.messages) :
        chat.messages[i].role = "assistant"
            => /\ i > 1
               /\ chat.messages[i - 1].role = "user"
               /\ chat.messages[i - 1].turn = chat.messages[i].turn

====
